---------------------------- MODULE Spec2Model ----------------------------
(***************************************************************************)
(* A model of the MCP proxy of alcherk/aichallenge_5: the subprocess       *)
(* (stdio) transport, the HTTP Tools retry loop, the Manager with its      *)
(* process-wide singleton, the safety guards and the tool-calling loop.    *)
(* Each subsystem has its own specification over the shared variables; a   *)
(* specification leaves the variables of the other subsystems unchanged.   *)
(***************************************************************************)
EXTENDS Integers, Sequences, FiniteSets, TLC

(***************************************************************************)
(* Bounds of the model.                                                    *)
(***************************************************************************)
\* Number of concurrent callers (tasks) of one subprocess transport.
MaxCallers == 2
\* Number of children one subprocess transport spawns.
MaxSpawn == 2
\* Number of aclose() calls made on the subprocess transport.
MaxClose == 1

\* Function-call items in one model response.
MaxCalls == 2

\* Entries in one generated JSON object.
MaxKeys == 2
\* Layers of nesting around one generated JSON object.
MaxDepth == 1
\* Concurrent turns that use the process-wide Manager.
MaxTasks == 2
\* Managers constructed in one run.
MaxManagers == 2
\* Tool dispatches of all turns together.
MaxDispatch == 2
\* Largest configured max_retries of the HTTP Tools session.
MaxRetries == 2

Callers == 1..MaxCallers
Children == 1..MaxSpawn
\* Request ids: each caller draws at most one id from the counter.
Ids == 1..MaxCallers

VARIABLES
    \* ---- StdioTransport (src/app/app/mcp/transports/stdio.py) ----
    proc,          \* self._proc: 0 is None, k is the k-th spawned child
    reader_task,   \* self._reader_task: 0 is None, k is the reader of child k
    pending,       \* self._pending: the ids in the table
    fut,           \* the future of each id: none, pending, result, server_closed, cancelled
    write_lock,    \* self._write_lock: [holder, waiters] (asyncio.Lock is FIFO)
    id_counter,    \* jsonrpc._id_counter: the next id
    child,         \* the spawned children: [state, got]
    reader,        \* the reader task of each child: none, running, finished, cancelled
    nspawn,        \* number of children spawned so far
    call,          \* the callers: [op, pc, rid, to, out]
    closes,        \* number of aclose() calls made
    \* ---- call_chatgpt (src/app/app/services/chatgpt_client.py) ----
    lpc,           \* position of the turn: start, await_model, dispatch, done
    round,         \* the loop index `_` of `for _ in range(max_rounds)`
    nreq,          \* model requests issued (client.post calls)
    mgr_on,        \* `mgr is not None`
    body,          \* the body of the last model request: [input, previous_response_id]
    response,      \* the response being processed: [id, calls]
    fi,            \* index in response.calls of the call being dispatched
    tool_outputs,  \* tool_outputs of the round
    lout,          \* how the turn ended
    nfc,           \* responses so far that carried function calls and a response id
    \* ---- MCPHttpToolsSession._request_with_retries ----
    hpc,           \* position: idle, inflight (awaiting the client), sleeping, done
    max_retries,   \* self._max_retries
    attempt,       \* the loop index `attempt`
    last_exc,      \* last_exc: "none" or the exception type
    last_resp,     \* last_resp: 0 is None, else the status code of the response
    hout,          \* how the request ended: [kind, code, exc]
    hist,          \* the outcome of every HTTP attempt made, in order
    \* ---- safety.guard_fetch_tool_result ----
    fetch_result,  \* the `result` argument, a JSON value
    fetch_out,     \* "none" before the guard ran, then "pass" or what it raised
    \* ---- safety.guard_filesystem_tool_args ----
    fs_root,       \* the `workspace_root` argument, a path
    fs_args,       \* the `arguments` argument, a JSON value
    fs_out,        \* "none" before the guard ran, then "pass" or "escapes"
    fs_resolved,   \* what resolve_and_validate_path returned, call by call
    \* ---- MCPManager and its process-wide singleton ----
    MANAGER,       \* _MANAGER: 0 is None, else the index of the instance
    MANAGER_LOCK,  \* _MANAGER_LOCK: holder and FIFO of waiting turns
    mgrs,          \* the MCPManager instances constructed so far
    nmgr,          \* how many were constructed
    task,          \* each turn: its position, its Manager, its dispatch
    sent,          \* per turn: did its dispatch send tools/call, and to a session in which state
    \* ---- MCPManager.connect, _register_tools and call_openai_tool (one instance) ----
    config,        \* self._config.servers: the configured servers, in order
    sessions,      \* self._sessions: server name -> the session built for it
    tools_openai,  \* self._tools_openai: the published definitions, in order
    tool_bindings, \* self._tool_bindings: model-facing name -> binding
    cpc,           \* position: none, constructed, connected, failed
    cidx,          \* servers of config that connect() has processed
    last_call,     \* the last session.call_tool made: [session, name, arguments, given]
    cout,          \* how the last call_openai_tool ended
    \* ---- manager._sanitize_json_schema_for_openai ----
    input_schema,  \* the `schema` argument, a JSON value
    sanitized,     \* what the function returned (NotSanitized before the call)
    \* ---- MCPHttpToolsSession.call_tool ----
    ct_name,       \* the `name` argument of call_tool
    ct_arguments,  \* the `arguments` argument: the object of the caller
    ct_body,       \* the body of the POST: [name, arguments] (NoBody before)
    \* ---- MCPClientSession.initialize (src/app/app/mcp/client.py) ----
    s_transport,   \* self._transport: none before construction, then stdio or http
    initialized,   \* self._initialized
    init_call,     \* the callers of initialize(): [pc, out, raw]
    accepted,      \* initialize requests the peer answered with a result
    nsent,         \* messages handed to the transport (request and notify calls)
    ninit,         \* initialize() calls made so far
    \* ---- config.load_mcp_config and MCPHttpToolsSession._retry_delay ----
    cfg_path,      \* the `path` argument of load_mcp_config
    cfg_file,      \* what the file system holds at the path
    loaded,        \* what load_mcp_config returned or raised (NotLoaded before)
    rdelay,        \* the last delay _retry_delay returned: [base, delay, initial, cap, k]
    \* ---- manager._sanitize_name and the model-facing name ----
    nm_server,     \* server.name
    nm_tool,       \* the name of a discovered tool
    nm_out,        \* [server_safe, tool_safe, openai_name] of _register_tools (NotNamed before)
    \* ---- the child's stdout pipe (StdioTransport._reader_loop) ----
    pipe,          \* per child: the lines it wrote that _reader_loop has not read yet
    \* ---- jsonrpc.next_id drawn by several transports ----
    ids_issued,    \* the ids next_id() returned, in order: [transport, rid]
    tpending       \* per transport: the ids of its pending table

varsStdio == <<proc, reader_task, pending, fut, write_lock, id_counter, child,
               reader, nspawn, call, closes>>
varsLoop == <<lpc, round, nreq, mgr_on, body, response, fi, tool_outputs, lout, nfc>>

varsHttp == <<hpc, max_retries, attempt, last_exc, last_resp, hout, hist>>

varsFetch == <<fetch_result, fetch_out>>

varsFs == <<fs_root, fs_args, fs_out, fs_resolved>>

varsMgr == <<MANAGER, MANAGER_LOCK, mgrs, nmgr, task, sent>>

varsConn == <<config, sessions, tools_openai, tool_bindings, cpc, cidx, last_call, cout>>

varsSchema == <<input_schema, sanitized>>

varsTool == <<ct_name, ct_arguments, ct_body>>

varsSess == <<s_transport, initialized, init_call, accepted, nsent, ninit>>

varsLoad == <<cfg_path, cfg_file, loaded, rdelay>>

varsName == <<nm_server, nm_tool, nm_out>>

varsWire == <<pipe>>

varsIds == <<ids_issued, tpending>>

vars == <<varsStdio, varsLoop, varsHttp, varsFetch, varsFs, varsMgr, varsConn,
          varsSchema, varsTool, varsSess, varsLoad, varsName, varsWire, varsIds>>

\* What the actions of one subsystem leave unchanged: the other subsystems.
notStdio == <<varsLoop, varsHttp, varsFetch, varsFs, varsMgr, varsConn,
               varsSchema, varsTool, varsSess, varsLoad, varsName, varsWire, varsIds>>
notLoop == <<varsStdio, varsHttp, varsFetch, varsFs, varsMgr, varsConn,
              varsSchema, varsTool, varsSess, varsLoad, varsName, varsWire, varsIds>>
notHttp == <<varsStdio, varsLoop, varsFetch, varsFs, varsMgr, varsConn,
              varsSchema, varsTool, varsSess, varsLoad, varsName, varsWire, varsIds>>
notFetch == <<varsStdio, varsLoop, varsHttp, varsFs, varsMgr, varsConn,
               varsSchema, varsTool, varsSess, varsLoad, varsName, varsWire, varsIds>>
notFs == <<varsStdio, varsLoop, varsHttp, varsFetch, varsMgr, varsConn,
            varsSchema, varsTool, varsSess, varsLoad, varsName, varsWire, varsIds>>
notMgr == <<varsStdio, varsLoop, varsHttp, varsFetch, varsFs, varsConn,
             varsSchema, varsTool, varsSess, varsLoad, varsName, varsWire, varsIds>>
notConn == <<varsStdio, varsLoop, varsHttp, varsFetch, varsFs, varsMgr,
              varsSchema, varsTool, varsSess, varsLoad, varsName, varsWire, varsIds>>
notSchema == <<varsStdio, varsLoop, varsHttp, varsFetch, varsFs, varsMgr,
                varsConn, varsTool, varsSess, varsLoad, varsName, varsWire, varsIds>>
notTool == <<varsStdio, varsLoop, varsHttp, varsFetch, varsFs, varsMgr, varsConn,
              varsSchema, varsSess, varsLoad, varsName, varsWire, varsIds>>
notSess == <<varsStdio, varsLoop, varsHttp, varsFetch, varsFs, varsMgr, varsConn,
              varsSchema, varsTool, varsLoad, varsName, varsWire, varsIds>>
notLoad == <<varsStdio, varsLoop, varsHttp, varsFetch, varsFs, varsMgr, varsConn,
              varsSchema, varsTool, varsSess, varsName, varsWire, varsIds>>
notName == <<varsStdio, varsLoop, varsHttp, varsFetch, varsFs, varsMgr, varsConn,
              varsSchema, varsTool, varsSess, varsLoad, varsWire, varsIds>>
notWire == <<varsStdio, varsLoop, varsHttp, varsFetch, varsFs, varsMgr, varsConn,
              varsSchema, varsTool, varsSess, varsLoad, varsName, varsIds>>
notIds == <<varsStdio, varsLoop, varsHttp, varsFetch, varsFs, varsMgr, varsConn,
             varsSchema, varsTool, varsSess, varsLoad, varsName, varsWire>>
\* What drawing an id leaves unchanged beside the transport of SpecStdio.
notStdioIds == <<varsLoop, varsHttp, varsFetch, varsFs, varsMgr, varsConn,
                  varsSchema, varsTool, varsSess, varsLoad, varsName, varsWire>>
\* What a step of the reader on a line of the pipe leaves unchanged.
notStdioWire == <<varsLoop, varsHttp, varsFetch, varsFs, varsMgr, varsConn,
                   varsSchema, varsTool, varsSess, varsLoad, varsName, varsIds>>

(***************************************************************************)
(* StdioTransport                                                          *)
(***************************************************************************)
StdioOps == {"start", "request", "notify"}

IdleCall == [op |-> "none", pc |-> "idle", rid |-> 0, to |-> 0, out |-> "none"]
NoChild == [state |-> "none", got |-> {}]

\* StdioTransport.__init__
InitStdio ==
    /\ proc = 0
    /\ reader_task = 0
    /\ pending = {}
    /\ fut = [i \in Ids |-> "none"]
    /\ write_lock = [holder |-> 0, waiters |-> <<>>]
    /\ id_counter = 1
    /\ child = [k \in Children |-> NoChild]
    /\ reader = [k \in Children |-> "none"]
    /\ nspawn = 0
    /\ call = [c \in Callers |-> IdleCall]
    /\ closes = 0

\* asyncio.Lock.release: the lock passes to the first waiter, if any.
Released(l) ==
    IF l.waiters = <<>> THEN [holder |-> 0, waiters |-> <<>>]
    ELSE [holder |-> Head(l.waiters), waiters |-> Tail(l.waiters)]

\* The outcome a caller sees on `await fut` once the future is done.
FutOutcome(f) == f

\* `return await fut` (request) or the return of notify()/start(), reached
\* after the write-and-drain section: cs is the caller's record so far,
\* futs the futures.
AfterWrite(cs, futs) ==
    IF cs.op = "request"
    THEN IF futs[cs.rid] = "pending"
         THEN [cs EXCEPT !.pc = "awaiting"]
         ELSE [cs EXCEPT !.pc = "done", !.out = FutOutcome(futs[cs.rid])]
    ELSE [cs EXCEPT !.pc = "done", !.out = "ok"]

\* The body of `async with self._write_lock` for caller c holding the lock:
\* self._proc.stdin.write(data); await self._proc.stdin.drain().
\* cs is the caller's record, p the value of self._proc, ch the children,
\* l the lock (held by c), futs the futures; stall says whether the pipe
\* takes the line at once or drain() has to wait for the child to read.
WriteBody(c, cs, p, ch, l, futs, stall) ==
    IF p = 0
    THEN \* self._proc is None: AttributeError leaves the `async with`
         /\ call' = [call EXCEPT ![c] = [cs EXCEPT !.pc = "done", !.out = "attr_error"]]
         /\ write_lock' = Released(l)
         /\ child' = ch
    ELSE IF ch[p].state = "exited"
    THEN \* the pipe is broken: drain() raises
         /\ child' = ch
         /\ write_lock' = Released(l)
         /\ call' = [call EXCEPT ![c] =
                         [cs EXCEPT !.pc = "done", !.to = p, !.out = "write_error"]]
    ELSE IF stall
    THEN \* the pipe is full: drain() suspends with the lock held
         /\ child' = ch
         /\ write_lock' = l
         /\ call' = [call EXCEPT ![c] = [cs EXCEPT !.pc = "draining", !.to = p]]
    ELSE \* written and drained without suspending
         /\ child' = [ch EXCEPT ![p].got =
                         IF cs.op = "request" THEN @ \cup {cs.rid} ELSE @]
         /\ write_lock' = Released(l)
         /\ call' = [call EXCEPT ![c] = AfterWrite([cs EXCEPT !.to = p], futs)]

\* A lock that every task acquires at once.
AlwaysUnlocked(l) == TRUE

\* asyncio.Lock.acquire returns without suspending: the lock is not held
\* and no task waits for it.
Unlocked(l) == l.holder = 0 /\ l.waiters = <<>>

\* request() lines 76-80 and notify() line 86, run without suspension once
\* self._proc is set: draw the id, register the future, enter
\* _write_json_line and take the lock or queue for it.
RegisterAndWrite(c, cs, p, ch, stall) ==
    LET isReq == cs.op = "request"
        rid == IF isReq THEN id_counter ELSE 0
        cs1 == [cs EXCEPT !.rid = rid]
        futs == IF isReq THEN [fut EXCEPT ![rid] = "pending"] ELSE fut
    IN  /\ id_counter' = IF isReq THEN id_counter + 1 ELSE id_counter
        /\ fut' = futs
        /\ pending' = IF isReq THEN pending \cup {rid} ELSE pending
        /\ IF Unlocked(write_lock)
           THEN WriteBody(c, cs1, p, ch, [write_lock EXCEPT !.holder = c], futs, stall)
           ELSE /\ write_lock' = [write_lock EXCEPT !.waiters = Append(@, c)]
                /\ call' = [call EXCEPT ![c] = [cs1 EXCEPT !.pc = "lockwait"]]
                /\ child' = ch

\* A caller enters start(), request() or notify().  The callers are
\* interchangeable tasks: they enter in the order of their numbers.
Call(c, o, stall) ==
    /\ call[c].pc = "idle"
    /\ IF c = 1 THEN TRUE ELSE call[c - 1].pc # "idle"
    /\ proc = 0 => nspawn + Cardinality({d \in Callers : call[d].pc = "spawning"}) < MaxSpawn
    /\ LET cs == [call[c] EXCEPT !.op = o]
       IN IF proc = 0
          THEN \* start(): create_subprocess_exec suspends
               /\ call' = [call EXCEPT ![c] = [cs EXCEPT !.pc = "spawning"]]
               /\ UNCHANGED <<proc, reader_task, pending, fut, write_lock,
                              id_counter, child, reader, nspawn>>
          ELSE IF o = "start"
               THEN /\ call' = [call EXCEPT ![c] = [cs EXCEPT !.pc = "done", !.out = "ok"]]
                    /\ UNCHANGED <<proc, reader_task, pending, fut, write_lock,
                                   id_counter, child, reader, nspawn>>
               ELSE /\ RegisterAndWrite(c, cs, proc, child, stall)
                    /\ UNCHANGED <<proc, reader_task, reader, nspawn>>
    /\ UNCHANGED closes
    /\ UNCHANGED notStdio

\* create_subprocess_exec returns in start(): the child is stored in
\* self._proc, its reader task is created, and the caller goes on.
SpawnDone(c, stall) ==
    /\ call[c].pc = "spawning"
    /\ LET k == nspawn + 1
           ch == [child EXCEPT ![k] = [state |-> "alive", got |-> {}]]
       IN /\ nspawn' = k
          /\ proc' = k
          /\ reader_task' = k
          /\ reader' = [reader EXCEPT ![k] = "running"]
          /\ IF call[c].op = "start"
             THEN /\ call' = [call EXCEPT ![c] = [@ EXCEPT !.pc = "done", !.out = "ok"]]
                  /\ child' = ch
                  /\ UNCHANGED <<pending, fut, write_lock, id_counter>>
             ELSE RegisterAndWrite(c, call[c], k, ch, stall)
    /\ UNCHANGED closes
    /\ UNCHANGED notStdio

\* A caller queued on the write lock is handed the lock and runs the body.
LockGranted(c, stall) ==
    /\ call[c].pc = "lockwait"
    /\ write_lock.holder = c
    /\ WriteBody(c, call[c], proc, child, write_lock, fut, stall)
    /\ UNCHANGED <<proc, reader_task, pending, fut, id_counter, reader, nspawn, closes>>
    /\ UNCHANGED notStdio

\* drain() resumes: the child read the line, or the child exited and the
\* connection was lost.
DrainDone(c) ==
    /\ call[c].pc = "draining"
    /\ write_lock' = Released(write_lock)
    /\ IF child[call[c].to].state # "exited"
       THEN /\ child' = [child EXCEPT ![call[c].to].got =
                            IF call[c].op = "request" THEN @ \cup {call[c].rid} ELSE @]
            /\ call' = [call EXCEPT ![c] = AfterWrite(call[c], fut)]
       ELSE /\ child' = child
            /\ call' = [call EXCEPT ![c] = [@ EXCEPT !.pc = "done", !.out = "write_error"]]
    /\ UNCHANGED <<proc, reader_task, pending, fut, id_counter, reader, nspawn, closes>>
    /\ UNCHANGED notStdio

\* `await fut` resumes in request() once the future is done.
FutResolved(c) ==
    /\ call[c].pc = "awaiting"
    /\ fut[call[c].rid] # "pending"
    /\ call' = [call EXCEPT ![c] = [@ EXCEPT !.pc = "done",
                                             !.out = FutOutcome(fut[call[c].rid])]]
    /\ UNCHANGED <<proc, reader_task, pending, fut, write_lock, id_counter, child,
                   reader, nspawn, closes>>
    /\ UNCHANGED notStdio

\* _reader_loop, one line: a response carrying id i (0: a line that does
\* not correlate: a notification, a malformed line, a non-integer id).
ReaderPops(i) == i \in pending

ReaderLine(k, i) ==
    /\ reader[k] = "running"
    /\ child[k].state = "alive"
    /\ i \in child[k].got \cup {0}
    /\ IF ReaderPops(i)
       THEN /\ pending' = pending \ {i}
            /\ fut' = IF fut[i] = "pending" THEN [fut EXCEPT ![i] = "result"] ELSE fut
       ELSE UNCHANGED <<pending, fut>>
    /\ UNCHANGED <<proc, reader_task, write_lock, id_counter, child, reader, nspawn,
                   call, closes>>
    /\ UNCHANGED notStdio

\* An end-of-file that fails no future.
FailsNoFuture(i) == FALSE

\* The futures the reader fails at end-of-file (lines 57-59): those of the
\* pending table that are not done.
FailedAtEOF(i) == i \in pending /\ fut[i] = "pending"

\* _reader_loop at end-of-file, every line of the pipe being read: fail all
\* pending requests, clear the table.
ReaderEOF(k) ==
    /\ reader[k] = "running"
    /\ child[k].state \in {"exited", "stdout_closed"}
    /\ pipe[k] = <<>>
    /\ fut' = [i \in Ids |-> IF FailedAtEOF(i) THEN "server_closed" ELSE fut[i]]
    /\ pending' = {}
    /\ reader' = [reader EXCEPT ![k] = "finished"]
    /\ UNCHANGED <<proc, reader_task, write_lock, id_counter, child, nspawn, call, closes>>
    /\ UNCHANGED notStdio

\* A close that cancels every future, done or not.
CancelsEveryFuture(i) == fut[i] # "none"

\* The futures aclose() cancels: those of the pending table that are not done.
CancelledByClose(i) == i \in pending /\ fut[i] = "pending"

\* StdioTransport.aclose (no suspension point inside).
Aclose ==
    /\ closes < MaxClose
    /\ closes' = closes + 1
    /\ reader' = IF reader_task # 0 /\ reader[reader_task] = "running"
                 THEN [reader EXCEPT ![reader_task] = "cancelled"] ELSE reader
    /\ proc' = 0
    /\ fut' = [i \in Ids |-> IF CancelledByClose(i) THEN "cancelled" ELSE fut[i]]
    /\ pending' = {}
    /\ UNCHANGED <<reader_task, write_lock, id_counter, child, nspawn, call>>
    /\ UNCHANGED notStdio

\* The child exits (on its own, or after terminate()): its output reaches
\* end-of-file and its input pipe breaks.
ChildExits(k) ==
    /\ child[k].state \in {"alive", "stdout_closed"}
    /\ child' = [child EXCEPT ![k] = [state |-> "exited", got |-> {}]]
    /\ UNCHANGED <<proc, reader_task, pending, fut, write_lock, id_counter, reader,
                   nspawn, call, closes>>
    /\ UNCHANGED notStdio

\* The child closes its standard output and keeps running: its output
\* reaches end-of-file while it still reads its input.
ChildClosesStdout(k) ==
    /\ child[k].state = "alive"
    /\ child' = [child EXCEPT ![k].state = "stdout_closed"]
    /\ UNCHANGED <<proc, reader_task, pending, fut, write_lock, id_counter, reader,
                   nspawn, call, closes>>
    /\ UNCHANGED notStdio

NextStdio ==
    \/ \E c \in Callers, o \in StdioOps, stall \in BOOLEAN : Call(c, o, stall)
    \/ \E c \in Callers, stall \in BOOLEAN : SpawnDone(c, stall)
    \/ \E c \in Callers, stall \in BOOLEAN : LockGranted(c, stall)
    \/ \E c \in Callers : DrainDone(c)
    \/ \E c \in Callers : FutResolved(c)
    \/ \E k \in Children, i \in Ids \cup {0} : ReaderLine(k, i)
    \/ \E k \in Children : ReaderEOF(k)
    \/ Aclose
    \/ \E k \in Children : ChildExits(k)


(***************************************************************************)
(* C1: whenever close() is called while requests are outstanding, every    *)
(* one of them resolves with the "closed" failure: a request whose future  *)
(* aclose() cancelled completes, for its caller, with that cancellation    *)
(* and with nothing else.                                                  *)
(***************************************************************************)
C1_ClosedRequestsFailClosed ==
    [][\A c \in Callers :
          (/\ call[c].op = "request"
           /\ call[c].rid # 0
           /\ fut[call[c].rid] = "cancelled"
           /\ call[c].pc # "done"
           /\ call'[c].pc = "done")
          => call'[c].out = "cancelled"]_varsStdio


(***************************************************************************)
(* C35 as stated: a transport owns at most one child and one reader task:  *)
(* however the first calls of start(), request() and notify() interleave,  *)
(* one child is spawned as long as the transport was not closed, and no    *)
(* child is spawned once close() was called.                               *)
(***************************************************************************)
C35_OneChildOneReader ==
    [][/\ closes = 0 => nspawn' <= 1
       /\ closes > 0 => nspawn' = nspawn
       /\ closes' = 0 => Cardinality({k \in Children : reader'[k] = "running"}) <= 1]_vars

(***************************************************************************)
(* C36 as stated: the pending table holds only requests a caller is still  *)
(* awaiting: when the write of a request fails, the failure is raised to   *)
(* the caller and the id of the request is no longer in the table.         *)
(***************************************************************************)
C36_FailedWriteLeavesPending ==
    \A c \in Callers :
        (/\ call[c].op = "request"
         /\ call[c].pc = "done"
         /\ call[c].out \in {"write_error", "attr_error"})
           => call[c].rid \notin pending

\* The transport with children that may close their output before they
\* exit.
NextEof ==
    \/ NextStdio
    \/ \E k \in Children : ChildClosesStdout(k)

\* Every step of a caller, of the reader and of the child that can be
\* taken is taken: the loop runs the tasks that are ready, the child reads
\* its input and answers every request it read unless it exits first.
FairEof ==
    /\ \A c \in Callers :
          /\ WF_vars(\E stall \in BOOLEAN : SpawnDone(c, stall))
          /\ WF_vars(\E stall \in BOOLEAN : LockGranted(c, stall))
          /\ WF_vars(DrainDone(c))
          /\ WF_vars(FutResolved(c))
    /\ \A k \in Children, i \in Ids : WF_vars(ReaderLine(k, i))
    /\ \A k \in Children : WF_vars(ReaderEOF(k))

(***************************************************************************)
(* C34 as stated: every request() issued on the transport eventually       *)
(* resolves, with a response or a failure, also when it is issued after    *)
(* the reader task observed end-of-file.                                   *)
(***************************************************************************)
C34_EveryRequestResolves ==
    \A c \in Callers :
        (call[c].op = "request" /\ call[c].pc # "idle") ~> (call[c].pc = "done")

(***************************************************************************)
(* The tool-calling loop of call_chatgpt                                   *)
(***************************************************************************)
\* max_rounds
max_rounds == 8

NoResponse == [id |-> 0, calls |-> <<>>]

\* The function_call items of a response: item j carries call_id j, or 0
\* when the item has no usable call_id.
CallItems(n) == [1..n -> {0, 1}]
CallSeqs == UNION {{[j \in 1..n |-> IF f[j] = 1 THEN j ELSE 0] : f \in CallItems(n)} :
                   n \in 0..MaxCalls}

\* How mgr.call_openai_tool ends for the loop: a result, an Exception, or
\* asyncio.CancelledError (a BaseException: the future of the pending
\* request was cancelled by StdioTransport.aclose).
DispatchOutcomes == {"result", "error", "cancelled"}

InitLoop ==
    /\ lpc = "start"
    /\ round = 0
    /\ nreq = 0
    /\ mgr_on = FALSE
    /\ body = [input |-> "none", previous_response_id |-> 0]
    /\ response = NoResponse
    /\ fi = 0
    /\ tool_outputs = <<>>
    /\ lout = "none"
    /\ nfc = 0

\* A loop that goes on with the last function call that is left.
LastCallFrom(calls, i) ==
    LET S == {j \in i..Len(calls) : calls[j] # 0}
    IN IF S = {} THEN 0 ELSE CHOOSE j \in S : \A k \in S : j >= k

\* The first item at or after position i that has a usable call_id (the
\* others are skipped by `continue`); 0 when there is none.
NextCallFrom(calls, i) ==
    LET S == {j \in i..Len(calls) : calls[j] # 0}
    IN IF S = {} THEN 0 ELSE CHOOSE j \in S : \A k \in S : j <= k

\* A loop that allows one round too many.
LoopExhaustedLate(r) == r > max_rounds

\* `for _ in range(max_rounds)` is exhausted after r completed rounds.
LoopExhausted(r) == r >= max_rounds

\* A loop that keeps the items of the earlier rounds in its input.
AccumulatedInput(prev, outs) == IF prev = "messages" THEN outs ELSE prev \o outs

\* `base_input = tool_outputs` (line 369): the input of the next request,
\* for the input prev of the last one and the outputs outs of the round.
NextInput(prev, outs) == outs

\* The end of a round (lines 367-370) and what follows without suspension:
\* the next request is built and posted, or the loop is exhausted and
\* line 388 raises.
EndRound(outs) ==
    /\ round' = round + 1
    /\ tool_outputs' = outs
    /\ fi' = 0
    /\ IF LoopExhausted(round + 1)
       THEN /\ lpc' = "done"
            /\ lout' = "loop_exceeded"
            /\ UNCHANGED <<nreq, body>>
       ELSE /\ lpc' = "await_model"
            /\ lout' = lout
            /\ nreq' = nreq + 1
            /\ body' = [input |-> NextInput(body.input, outs),
                        previous_response_id |-> response'.id]

\* A loop in which every failure of a tool call leaves the turn.
PropagatesAnyFailure(o) == o # "result"

\* What `except Exception` of line 355 does not catch: an outcome of
\* mgr.call_openai_tool that leaves the `for` loop and the turn.
Propagates(o) == o = "cancelled"

\* A check that never finds the response id missing.
IdNeverMissing(rid) == FALSE

\* `not isinstance(response_id, str) or not response_id` (line 332), for
\* rid = 0 when data.get("id") is no usable id.
NoResponseId(rid) == rid = 0

\* A check that never finds the manager missing.
MgrNeverNone(m) == FALSE

\* `mgr is None` (line 329), for m = `mgr is not None`.
MgrIsNone(m) == ~m

\* The turn starts: the manager is ensured (m: whether there is one) and
\* the first request is posted.
StartTurn(m) ==
    /\ lpc = "start"
    /\ mgr_on' = m
    /\ lpc' = "await_model"
    /\ nreq' = nreq + 1
    /\ body' = [input |-> "messages", previous_response_id |-> 0]
    /\ UNCHANGED <<round, response, fi, tool_outputs, lout, nfc>>
    /\ UNCHANGED notLoop

\* client.post raises, or raise_for_status() raises on the response.
ModelFails ==
    /\ lpc = "await_model"
    /\ lpc' = "done"
    /\ lout' = "http_error"
    /\ UNCHANGED <<round, nreq, mgr_on, body, response, fi, tool_outputs, nfc>>
    /\ UNCHANGED notLoop

\* The model answers with response id rid (0: none usable) and the
\* function_call items calls (none: a final answer).
ModelResponds(rid, calls) ==
    /\ lpc = "await_model"
    /\ response' = [id |-> rid, calls |-> calls]
    /\ UNCHANGED mgr_on
    /\ IF calls = <<>>
       THEN /\ lpc' = "done"
            /\ lout' = "final"
            /\ UNCHANGED <<round, nreq, body, fi, tool_outputs, nfc>>
       ELSE IF MgrIsNone(mgr_on)
       THEN /\ lpc' = "done"
            /\ lout' = "no_mcp"
            /\ UNCHANGED <<round, nreq, body, fi, tool_outputs, nfc>>
       ELSE IF NoResponseId(rid)
       THEN /\ lpc' = "done"
            /\ lout' = "no_response_id"
            /\ UNCHANGED <<round, nreq, body, fi, tool_outputs, nfc>>
       ELSE /\ nfc' = nfc + 1
            /\ IF NextCallFrom(calls, 1) = 0
               THEN EndRound(<<>>)
               ELSE /\ lpc' = "dispatch"
                    /\ fi' = NextCallFrom(calls, 1)
                    /\ tool_outputs' = <<>>
                    /\ UNCHANGED <<round, nreq, body, lout>>
    /\ UNCHANGED notLoop

\* mgr.call_openai_tool returns or raises for the call being dispatched.
ToolReturns(o) ==
    /\ lpc = "dispatch"
    /\ UNCHANGED <<mgr_on, response, nfc>>
    /\ IF Propagates(o)
       THEN /\ lpc' = "done"
            /\ lout' = o
            /\ UNCHANGED <<round, nreq, body, fi, tool_outputs>>
       ELSE LET outs == Append(tool_outputs,
                               [call_id |-> response.calls[fi], kind |-> o])
                nx == NextCallFrom(response.calls, fi + 1)
            IN IF nx = 0
               THEN EndRound(outs)
               ELSE /\ fi' = nx
                    /\ tool_outputs' = outs
                    /\ UNCHANGED <<lpc, round, nreq, body, lout>>
    /\ UNCHANGED notLoop

NextLoop ==
    \/ \E m \in BOOLEAN : StartTurn(m)
    \/ ModelFails
    \/ \E rid \in {0, nreq}, calls \in CallSeqs : ModelResponds(rid, calls)
    \/ \E o \in DispatchOutcomes : ToolReturns(o)


(***************************************************************************)
(* MCPHttpToolsSession._request_with_retries                               *)
(***************************************************************************)
\* What one HTTP attempt can end with: a response with a status code, or an
\* exception of the client: httpx.TimeoutException and httpx.ConnectError
\* are httpx.TransportError, "other" is any other Exception.
StatusCodes == {200, 404, 429, 500, 503}
ClientExceptions == {"TimeoutException", "ConnectError", "other"}
Status(code) == [kind |-> "status", code |-> code, exc |-> "none"]
Raised(e) == [kind |-> "exc", code |-> 0, exc |-> e]
AttemptOutcomes == {Status(c) : c \in StatusCodes} \cup {Raised(e) : e \in ClientExceptions}

NoOutcome == [kind |-> "none", code |-> 0, exc |-> "none"]

InitHttp ==
    /\ hpc = "idle"
    /\ max_retries = 0
    /\ attempt = 0
    /\ last_exc = "none"
    /\ last_resp = 0
    /\ hout = NoOutcome
    /\ hist = <<>>

\* A policy that re-attempts after every error status.
ShouldRetryAnyError(exc, status) ==
    IF exc # "none" THEN exc \in {"TimeoutException", "ConnectError"}
    ELSE status >= 400

\* _should_retry(exc, response): exc is "none" for None, status is 0 for a
\* None response.
ShouldRetry(exc, status) ==
    IF exc # "none" THEN exc \in {"TimeoutException", "ConnectError"}
    ELSE IF status = 0 THEN FALSE
    ELSE IF status >= 500 THEN TRUE
    ELSE IF status = 429 THEN TRUE
    ELSE FALSE

\* A budget of one attempt too many.
AttemptsTotalExtra(mr) == mr + 2

\* attempts_total = max(1, self._max_retries + 1)
AttemptsTotal(mr) == IF mr + 1 > 1 THEN mr + 1 ELSE 1

\* Response.raise_for_status(): raises HTTPStatusError for an error status.
RaisesForStatus(status) == status >= 400

\* The request starts with max_retries mr: the first attempt is issued.
StartRequest(mr) ==
    /\ hpc = "idle"
    /\ max_retries' = mr
    /\ attempt' = 0
    /\ last_exc' = "none"
    /\ last_resp' = 0
    /\ hpc' = "inflight"
    /\ UNCHANGED <<hout, hist>>
    /\ UNCHANGED notHttp

\* The attempt in flight ends with outcome o (lines 302-368), and with it
\* the whole request unless the loop goes to sleep before a re-attempt
\* (lines 370-375).
AttemptEnds(o) ==
    /\ hpc = "inflight"
    /\ hist' = Append(hist, o)
    /\ UNCHANGED <<max_retries, attempt>>
    /\ LET more == attempt < AttemptsTotal(max_retries) - 1
       IN IF o.kind = "exc"
          THEN \* the client raised: except Exception as e
               /\ last_exc' = o.exc
               /\ last_resp' = 0
               /\ IF more /\ ShouldRetry(o.exc, 0)
                  THEN /\ hpc' = "sleeping"
                       /\ hout' = hout
                  ELSE /\ hpc' = "done"
                       /\ hout' = Raised(o.exc)
          ELSE /\ last_resp' = o.code
               /\ IF o.code >= 400 /\ ShouldRetry("none", o.code) /\ more
                  THEN /\ hpc' = "sleeping"
                       /\ last_exc' = "none"
                       /\ hout' = hout
                  ELSE IF RaisesForStatus(o.code)
                  THEN \* HTTPStatusError is caught at line 347; it is no
                       \* transport error, or no attempt is left: break, and
                       \* line 372 raises the error of last_resp
                       /\ last_exc' = "HTTPStatusError"
                       /\ IF more /\ ShouldRetry("HTTPStatusError", 0)
                          THEN /\ hpc' = "sleeping"
                               /\ hout' = hout
                          ELSE /\ hpc' = "done"
                               /\ hout' = [kind |-> "http_error", code |-> o.code,
                                           exc |-> "HTTPStatusError"]
                  ELSE /\ last_exc' = "none"
                       /\ hpc' = "done"
                       /\ hout' = [kind |-> "response", code |-> o.code, exc |-> "none"]
    /\ UNCHANGED notHttp

\* asyncio.sleep(delay) returns: the next iteration resets last_exc and
\* last_resp and issues the next attempt.
SleepEnds ==
    /\ hpc = "sleeping"
    /\ attempt' = attempt + 1
    /\ last_exc' = "none"
    /\ last_resp' = 0
    /\ hpc' = "inflight"
    /\ UNCHANGED <<max_retries, hout, hist>>
    /\ UNCHANGED notHttp

NextHttp ==
    \/ \E mr \in 0..MaxRetries : StartRequest(mr)
    \/ \E o \in AttemptOutcomes : AttemptEnds(o)
    \/ SleepEnds


C17_ToolFailureDoesNotAbort ==
    [][/\ lout' # "error"
       /\ (/\ lpc = "dispatch"
           /\ Len(tool_outputs') = Len(tool_outputs) + 1
           /\ tool_outputs'[Len(tool_outputs')].kind = "error")
          => LET calls == response.calls
                 later == {j \in (fi + 1)..Len(calls) : calls[j] # 0}
             IN /\ tool_outputs' = Append(tool_outputs,
                                          [call_id |-> calls[fi], kind |-> "error"])
                /\ lout' \in {"none", "loop_exceeded"}
                /\ response' = response
                /\ IF later # {}
                   THEN /\ lpc' = "dispatch"
                        /\ fi' \in later /\ \A j \in later : fi' <= j
                        /\ nreq' = nreq
                   ELSE /\ round' = round + 1
                        /\ Len(tool_outputs') = Cardinality({j \in 1..Len(calls) : calls[j] # 0})
                        /\ IF round + 1 < max_rounds
                           THEN /\ lpc' = "await_model"
                                /\ lout' = "none"
                                /\ nreq' = nreq + 1
                                /\ body' = [input |-> tool_outputs',
                                            previous_response_id |-> response.id]
                           ELSE lpc' = "done" /\ lout' = "loop_exceeded" /\ nreq' = nreq]_vars

\* The first of two tool calls failed, the second returned, and the next
\* model request was sent with both outputs.
C17_Witness ==
    /\ lpc = "await_model"
    /\ nreq = 2
    /\ body.input = <<[call_id |-> 1, kind |-> "error"], [call_id |-> 2, kind |-> "result"]>>

(***************************************************************************)
(* C30: the state is threaded from round to round.  The first model        *)
(* request of a turn carries the initial messages and no                   *)
(* previous_response_id; every later request carries as previous_response_ *)
(* id the id of the response of the round just ended, and as input exactly *)
(* the function-call outputs of that round: one item for each function     *)
(* call of that response with a usable call_id, in order, and nothing of   *)
(* the earlier rounds.  A request that is under way is not changed.        *)
(***************************************************************************)
C30_StateThreadedAcrossRounds ==
    [][/\ nreq' \in {nreq, nreq + 1}
       /\ nreq' = nreq => body' = body
       /\ (nreq' = nreq + 1 /\ nreq = 0)
            => body' = [input |-> "messages", previous_response_id |-> 0]
       /\ (nreq' = nreq + 1 /\ nreq > 0)
            => /\ body'.previous_response_id = response'.id
               /\ response'.id = nreq
               /\ body'.input = tool_outputs'
               /\ [j \in 1..Len(body'.input) |-> body'.input[j].call_id]
                     = SelectSeq(response'.calls, LAMBDA x : x # 0)]_vars

\* The third request of a turn is under way: it carries the id of the
\* second response and the one output of the second round, after a first
\* round of two outputs.
C30_Witness ==
    /\ lpc = "await_model"
    /\ nreq = 3
    /\ round = 2
    /\ body.previous_response_id = 2
    /\ Len(body.input) = 1
    /\ body.input = tool_outputs

(***************************************************************************)
(* C31 as stated: within a round the function calls are executed one at a  *)
(* time in the order of the response, and when the round ends there is     *)
(* exactly one function-call output for each function call of the          *)
(* response, in the same order, each carrying that call's id.              *)
(***************************************************************************)
C31_OneOutputPerFunctionCall ==
    [][round' = round + 1
         => /\ Len(tool_outputs') = Len(response'.calls)
            /\ \A j \in 1..Len(tool_outputs') :
                  tool_outputs'[j].call_id = response'.calls[j]]_vars

(***************************************************************************)
(* C31, amended: within a round the function calls that carry a usable     *)
(* call id are executed one at a time in the order of the response (a call *)
(* without one is skipped: it is not dispatched and gets no output).       *)
(* While call fi is dispatched the outputs are those of the usable calls   *)
(* before it, in order; each return appends one output with the id of the  *)
(* call dispatched and goes on with the next usable call; when the round   *)
(* ends there is exactly one output for each usable call, in order.        *)
(***************************************************************************)
C31_OneOutputPerUsableCall ==
    [][LET Usable(x) == x # 0
           CallIds(outs) == [j \in 1..Len(outs) |-> outs[j].call_id]
       IN /\ lpc' = "dispatch"
               => /\ fi' \in 1..Len(response'.calls)
                  /\ Usable(response'.calls[fi'])
                  /\ CallIds(tool_outputs')
                        = SelectSeq(SubSeq(response'.calls, 1, fi' - 1), Usable)
          /\ (lpc = "dispatch" /\ tool_outputs' # tool_outputs)
               => /\ response' = response
                  /\ Len(tool_outputs') = Len(tool_outputs) + 1
                  /\ SubSeq(tool_outputs', 1, Len(tool_outputs)) = tool_outputs
                  /\ tool_outputs'[Len(tool_outputs')].call_id = response.calls[fi]
                  /\ lpc' = "dispatch" => fi' > fi
          /\ round' = round + 1
               => CallIds(tool_outputs') = SelectSeq(response'.calls, Usable)]_vars

\* The response of the second round had two function calls, the first
\* without a usable call id: the round ended with one output, which
\* carries the id of the second call.
C31_Witness ==
    /\ round = 2
    /\ nreq = 3
    /\ Len(response.calls) = 2
    /\ response.calls[1] = 0
    /\ Len(tool_outputs) = 1
    /\ tool_outputs[1].call_id = 2

(***************************************************************************)
(* C38: when a model response contains function calls but carries no       *)
(* usable response id, the turn fails before any tool call of that         *)
(* response is dispatched: the step that receives the response ends the    *)
(* turn with no dispatch begun, no output produced and no further request, *)
(* and a call is dispatched only for a response that has an id.            *)
(***************************************************************************)
C38_NoResponseIdFailsBeforeDispatch ==
    [][/\ (/\ lpc = "await_model"
           /\ response' # response
           /\ response'.calls # <<>>
           /\ response'.id = 0)
          => /\ lpc' = "done"
             /\ lout' \in {"no_response_id", "no_mcp"}
             /\ mgr_on => lout' = "no_response_id"
             /\ UNCHANGED <<fi, tool_outputs, nfc, nreq, round, body>>
       /\ lpc' = "dispatch" => response'.id # 0
       /\ lout = "no_response_id" => (lpc = "done" /\ UNCHANGED varsLoop)]_vars

\* The response of the second round asked for two tools and had no id:
\* the turn ended there with the outputs of the first round untouched.
C38_Witness ==
    /\ lpc = "done"
    /\ lout = "no_response_id"
    /\ nreq = 2
    /\ response.id = 0
    /\ Len(response.calls) = 2
    /\ Len(tool_outputs) = 1
    /\ nfc = 1

(***************************************************************************)
(* C18: if a model response contains function calls while no tool manager  *)
(* is active, the turn fails at once: no tool is dispatched and no further *)
(* model request is issued for that turn.                                  *)
(***************************************************************************)
C18_FunctionCallsWithoutManagerFail ==
    [][/\ (/\ lpc = "await_model"
           /\ ~mgr_on
           /\ lout' # "http_error"
           /\ response'.calls # <<>>)
          => (lpc' = "done" /\ lout' = "no_mcp" /\ nreq' = nreq /\ tool_outputs' = <<>>)
       /\ lout = "no_mcp" => (lpc = "done" /\ lpc' = "done" /\ nreq' = nreq)
       /\ lpc' = "dispatch" => mgr_on']_vars

\* The first response asked for a tool and there was no manager.
C18_Witness ==
    /\ lpc = "done"
    /\ lout = "no_mcp"
    /\ ~mgr_on
    /\ response.calls # <<>>
    /\ nreq = 1
    /\ tool_outputs = <<>>

(***************************************************************************)
(* JSON values, as json.loads builds them: int, float, bool, str, None,    *)
(* dict (its entries in insertion order, keys unique) and list.            *)
(***************************************************************************)
JInt(n) == [t |-> "int", n |-> n]
JFloat(n) == [t |-> "float", n |-> n]
JBool(b) == [t |-> "bool", b |-> b]
JStr(x) == [t |-> "str", s |-> x]
JNull == [t |-> "null"]
JObj(es) == [t |-> "obj", es |-> es]
JArr(xs) == [t |-> "arr", xs |-> xs]
Entry(k, v) == [k |-> k, v |-> v]

\* dict.get(key, default)
Get(es, key, default) ==
    IF \E i \in 1..Len(es) : es[i].k = key
    THEN es[CHOOSE i \in 1..Len(es) : es[i].k = key].v
    ELSE default

\* The dicts of at most MaxKeys entries with keys from the sequence ks, in
\* that order, and values from leaves.
FlatObjects(ks, leaves) ==
    UNION {{JObj([i \in 1..n |-> Entry(ks[ix[i]], vs[i])]) :
               ix \in {f \in [1..n -> 1..Len(ks)] : \A i \in 1..(n - 1) : f[i] < f[i + 1]},
               vs \in [1..n -> leaves]} : n \in 0..MaxKeys}

\* The values of base, each also inside up to d layers of a dict under key
\* k or of a one-element list.
RECURSIVE Nested(_, _, _)
Nested(base, k, d) ==
    IF d = 0 THEN base
    ELSE LET inner == Nested(base, k, d - 1)
         IN inner \cup {JObj(<<Entry(k, x)>>) : x \in inner} \cup {JArr(<<x>>) : x \in inner}

(***************************************************************************)
(* safety.guard_fetch_tool_result                                          *)
(***************************************************************************)
FetchKeys == <<"status", "statusCode", "ok">>
FetchLeaves == {JInt(200), JInt(404), JFloat(404), JBool(TRUE), JBool(FALSE), JStr("error")}
FetchResults == Nested(FlatObjects(FetchKeys, FetchLeaves), "data", MaxDepth)

\* isinstance(v, int): bool is a subclass of int.
IsInstanceInt(v) == v.t \in {"int", "bool"}
\* The integer an int instance compares as: True is 1, False is 0.
IntValue(v) == IF v.t = "bool" THEN (IF v.b THEN 1 ELSE 0) ELSE v.n

\* walk(obj): "pass" when it returns, else the error it raises.
RECURSIVE walk(_)
RECURSIVE walkAll(_, _)
walk(obj) ==
    IF obj.t = "obj"
    THEN LET status == Get(obj.es, "status", Get(obj.es, "statusCode", JNull))
             ok == Get(obj.es, "ok", JNull)
         IN IF IsInstanceInt(status) /\ ~(200 <= IntValue(status) /\ IntValue(status) <= 299)
            THEN "non_2xx_status"
            ELSE IF ok = JBool(FALSE)
            THEN "ok_false"
            ELSE walkAll([i \in 1..Len(obj.es) |-> obj.es[i].v], 1)
    ELSE IF obj.t = "arr"
    THEN walkAll(obj.xs, 1)
    ELSE "pass"
\* `for v in ...: walk(v)` from the i-th value on: the first error ends it.
walkAll(xs, i) ==
    IF i > Len(xs) THEN "pass"
    ELSE IF walk(xs[i]) # "pass" THEN walk(xs[i])
    ELSE walkAll(xs, i + 1)

guard_fetch_tool_result(result) == walk(result)

InitFetch ==
    /\ fetch_result = JNull
    /\ fetch_out = "none"

\* The guard is applied to any result a fetch tool can return.
InitFetchInputs ==
    /\ fetch_result \in FetchResults
    /\ fetch_out = "none"

GuardFetch ==
    /\ fetch_out = "none"
    /\ fetch_out' = guard_fetch_tool_result(fetch_result)
    /\ UNCHANGED fetch_result
    /\ UNCHANGED notFetch

NextFetch == GuardFetch

(***************************************************************************)
(* safety.guard_filesystem_tool_args                                       *)
(*                                                                         *)
(* A path is what pathlib.Path(raw) holds: whether it is absolute, and its *)
(* segments.  The file system has two symbolic links.                      *)
(***************************************************************************)
Rel(segs) == [abs |-> FALSE, segs |-> segs]
Abs(segs) == [abs |-> TRUE, segs |-> segs]

Symlinks == {[at |-> <<"workspace", "link">>, to |-> <<"etc">>],
             [at |-> <<"ws">>, to |-> <<"workspace">>]}

\* os.path.realpath of the absolute path acc/rest, acc being resolved: "."
\* is dropped, ".." removes the last resolved segment, a symbolic link is
\* replaced by its target.
RECURSIVE realpath(_, _)
realpath(acc, rest) ==
    IF rest = <<>> THEN acc
    ELSE LET seg == Head(rest)
             nxt == Append(acc, seg)
         IN IF seg = "." THEN realpath(acc, Tail(rest))
            ELSE IF seg = ".."
            THEN realpath(IF acc = <<>> THEN acc ELSE SubSeq(acc, 1, Len(acc) - 1), Tail(rest))
            ELSE IF \E l \in Symlinks : l.at = nxt
            THEN realpath((CHOOSE l \in Symlinks : l.at = nxt).to, Tail(rest))
            ELSE realpath(nxt, Tail(rest))

\* Path.resolve() of an absolute path.
resolve(p) == Abs(realpath(<<>>, p.segs))

\* _is_within_root: candidate.relative_to(root) does not raise.
is_within_root(root, candidate) ==
    /\ Len(root.segs) <= Len(candidate.segs)
    /\ SubSeq(candidate.segs, 1, Len(root.segs)) = root.segs

\* resolve_and_validate_path: the candidate, and whether it is returned
\* (ok) or RuntimeError is raised.
resolve_and_validate_path(workspace_root, raw) ==
    LET root == resolve(workspace_root)
        candidate == IF ~raw.abs THEN resolve(Abs(root.segs \o raw.segs)) ELSE resolve(raw)
    IN [ok |-> is_within_root(root, candidate), candidate |-> candidate]

PATH_LIKE_KEYS == {"path", "file_path", "filepath", "filename", "directory", "dir", "target"}

\* A comparison of keys as they are written.
KeyAsWritten(k) == k

\* str.lower() on the keys of the generated arguments.
Lower(k) ==
    CASE k = "Target" -> "target"
      [] k = "PATH" -> "path"
      [] OTHER -> k

\* iter_path_args: the sequence of (key, value) it yields.
RECURSIVE iter_path_args(_)
RECURSIVE iterEntries(_, _)
RECURSIVE iterItems(_, _)
iter_path_args(arguments) ==
    IF arguments.t = "obj" THEN iterEntries(arguments.es, 1)
    ELSE IF arguments.t = "arr" THEN iterItems(arguments.xs, 1)
    ELSE <<>>
iterEntries(es, i) ==
    IF i > Len(es) THEN <<>>
    ELSE (IF es[i].v.t = "str" /\ Lower(es[i].k) \in PATH_LIKE_KEYS
          THEN <<Entry(es[i].k, es[i].v.s)>>
          ELSE iter_path_args(es[i].v)) \o iterEntries(es, i + 1)
iterItems(xs, i) ==
    IF i > Len(xs) THEN <<>>
    ELSE iter_path_args(xs[i]) \o iterItems(xs, i + 1)

\* `not arguments`
Falsy(v) == v = JNull \/ v = JObj(<<>>) \/ v = JArr(<<>>)

\* guard_filesystem_tool_args: how it ends, and the candidates validated
\* on the way.
guard_filesystem_tool_args(workspace_root, arguments) ==
    LET found == IF Falsy(arguments) THEN <<>> ELSE iter_path_args(arguments)
        res == [i \in 1..Len(found) |-> resolve_and_validate_path(workspace_root, found[i].v)]
        bad == {i \in 1..Len(found) : ~res[i].ok}
        first == IF bad = {} THEN Len(found) + 1 ELSE CHOOSE i \in bad : \A j \in bad : i <= j
    IN [out |-> IF bad = {} THEN "pass" ELSE "escapes",
        resolved |-> [i \in 1..(first - 1) |-> res[i].candidate]]

FsKeys == <<"path", "Target", "paths">>
FsPaths == {Rel(<<"sub", "file.txt">>), Rel(<<"..", "..", "etc", "passwd">>),
            Abs(<<"etc", "passwd">>), Abs(<<"workspace", "sub", "file.txt">>),
            Rel(<<"link", "passwd">>), Rel(<<"sub", "..", "..", "workspace", "x">>)}
FsLeaves == {JStr(p) : p \in FsPaths} \cup {JInt(1)}
FsArguments == Nested(FlatObjects(FsKeys, FsLeaves), "path", MaxDepth)
FsRoots == {Abs(<<"workspace">>), Abs(<<"ws">>)}

InitFs ==
    /\ fs_root = Abs(<<"workspace">>)
    /\ fs_args = JNull
    /\ fs_out = "none"
    /\ fs_resolved = <<>>

InitFsInputs ==
    /\ fs_root \in FsRoots
    /\ fs_args \in FsArguments
    /\ fs_out = "none"
    /\ fs_resolved = <<>>

GuardFs ==
    /\ fs_out = "none"
    /\ LET r == guard_filesystem_tool_args(fs_root, fs_args)
       IN /\ fs_out' = r.out
          /\ fs_resolved' = r.resolved
    /\ UNCHANGED <<fs_root, fs_args>>
    /\ UNCHANGED notFs

NextFs == GuardFs

(***************************************************************************)
(* MCPManager, ensure_mcp_manager and call_openai_tool                     *)
(*                                                                         *)
(* A turn (call_chatgpt) calls ensure_mcp_manager once and then dispatches *)
(* tool calls on the Manager it was given.  Turns are asyncio tasks: a     *)
(* step runs from one suspension point to the next.                        *)
(***************************************************************************)
Tasks == 1..MaxTasks
MgrIds == 1..MaxManagers

Server(name, transport, kind) == [name |-> name, transport |-> transport, kind |-> kind]

\* The built-in default configuration of ensure_mcp_manager.
BuiltinServers == <<Server("builtin_filesystem", "stdio", "filesystem"),
                    Server("builtin_fetch", "stdio", "fetch")>>

\* load_mcp_config(path).servers for the configuration files there are:
\* one with a subprocess filesystem server and an HTTP fetch server, one
\* with the same servers in the other order, one with an empty servers
\* array.
load_mcp_config(path) ==
    IF path = "mcp.json"
    THEN <<Server("files", "stdio", "filesystem"), Server("web", "http", "fetch")>>
    ELSE IF path = "web_first.json"
    THEN <<Server("web", "http", "fetch"), Server("files", "stdio", "filesystem")>>
    ELSE <<>>

\* What a turn asks for: mcp_config_path ("" is None) and workspace_root.
Requests == {[path |-> "", root |-> Abs(<<"workspace">>)],
             [path |-> "", root |-> Abs(<<"ws">>)],
             [path |-> "mcp.json", root |-> Abs(<<"workspace">>)],
             [path |-> "empty.json", root |-> Abs(<<"workspace">>)]}

\* config_source = mcp_config_path or "__builtin_default__"
ConfigSource(path) == IF path = "" THEN "__builtin_default__" ELSE path

NoManager == [config_source |-> "", workspace_root |-> Abs(<<>>), servers |-> <<>>,
              sessions |-> <<>>, transport |-> <<>>, bindings |-> <<>>]

\* MCPManager.__init__: _sessions and _tool_bindings are empty.  sessions[i]
\* tells whether server i has an entry in _sessions, transport[i] is the
\* state of its transport, bindings[i] whether its tool is bound.
NewManager(servers, root, source) ==
    [config_source |-> source, workspace_root |-> root, servers |-> servers,
     sessions |-> [i \in 1..Len(servers) |-> FALSE],
     transport |-> [i \in 1..Len(servers) |-> "none"],
     bindings |-> [i \in 1..Len(servers) |-> FALSE]]

\* MCPManager.matches
matches(m, req) ==
    /\ m.config_source = ConfigSource(req.path)
    /\ resolve(m.workspace_root) = resolve(req.root)

IdleTask == [pc |-> "idle", req |-> [path |-> "", root |-> Abs(<<"workspace">>)], mgr |-> 0,
             idx |-> 0, srv |-> 0, args |-> JNull, live |-> FALSE, out |-> "none",
             res |-> JNull, n |-> 0, waited |-> FALSE]

InitMgr ==
    /\ MANAGER = 0
    /\ MANAGER_LOCK = [holder |-> 0, waiters |-> <<>>]
    /\ mgrs = [i \in MgrIds |-> NoManager]
    /\ nmgr = 0
    /\ task = [t \in Tasks |-> IdleTask]
    /\ sent = [t \in Tasks |-> "none"]

\* A lock that never makes anybody wait.
LockIgnored(l) == TRUE

\* asyncio.Lock.acquire returns at once on a lock nobody holds or waits for.
LockFree(l) == l.holder = 0 /\ l.waiters = <<>>

\* MCPManager.aclose from the i-th server on: every session in _sessions
\* is closed in order; closing the stdio transport does not suspend,
\* closing the HTTP client does when susp.  at is the server whose close is
\* suspended, 0 when the loop ran to its end.
RECURSIVE CloseFrom(_, _, _)
CloseFrom(m, i, susp) ==
    IF i > Len(m.servers) THEN [m |-> m, at |-> 0, closed |-> {}]
    ELSE IF ~m.sessions[i] THEN CloseFrom(m, i + 1, susp)
    ELSE LET m2 == [m EXCEPT !.transport[i] = "closed"]
         IN IF m.servers[i].transport = "http" /\ susp
            THEN [m |-> m2, at |-> i, closed |-> {i}]
            ELSE LET r == CloseFrom(m2, i + 1, susp)
                 IN [m |-> r.m, at |-> r.at, closed |-> r.closed \cup {i}]

\* self._sessions.clear()
Cleared(m) == [m EXCEPT !.sessions = [i \in 1..Len(m.servers) |-> FALSE]]

\* `if _MANAGER is not None` before the close.
NeedsClose(cur) == cur # 0
\* The tasks after turn t became ts and the sessions `closed` of Manager
\* cur were closed: a request awaiting its response on one of them is
\* cancelled.
TasksAfter(t, ts, cur, closed) ==
    [u \in Tasks |->
        IF u = t THEN ts
        ELSE IF task[u].pc = "calling" /\ task[u].mgr = cur /\ task[u].srv \in closed
        THEN [task[u] EXCEPT !.live = FALSE]
        ELSE task[u]]

\* lines 268-301: the configuration is loaded; with no servers None is
\* returned, else the new Manager is assigned to _MANAGER and connect()
\* suspends in the start of its first server.
Swap(t, ts, l, ms, cur, closed) ==
    LET servers == IF ts.req.path = "" THEN BuiltinServers ELSE load_mcp_config(ts.req.path)
    IN IF servers = <<>>
       THEN /\ MANAGER' = 0
            /\ mgrs' = ms
            /\ nmgr' = nmgr
            /\ MANAGER_LOCK' = Released(l)
            /\ task' = TasksAfter(t, [ts EXCEPT !.pc = "returned", !.mgr = 0, !.idx = 0], cur, closed)
       ELSE /\ nmgr < MaxManagers
            /\ nmgr' = nmgr + 1
            /\ MANAGER' = nmgr + 1
            /\ mgrs' = [ms EXCEPT ![nmgr + 1] =
                           NewManager(servers, ts.req.root, ConfigSource(ts.req.path))]
            /\ MANAGER_LOCK' = l
            /\ task' = TasksAfter(t, [ts EXCEPT !.pc = "connecting", !.idx = 1], cur, closed)

\* lines 262-266: _MANAGER.aclose() from its i-th server on, then
\* _MANAGER = None and the swap, unless the close suspends.  m is the
\* Manager as the sessions before i left it.
CloseAndSwap(t, ts, l, m, i, susp) ==
    LET r == CloseFrom(m, i, susp)
    IN IF r.at # 0
       THEN /\ mgrs' = [mgrs EXCEPT ![MANAGER] = r.m]
            /\ task' = TasksAfter(t, [ts EXCEPT !.pc = "closing", !.idx = r.at], MANAGER, r.closed)
            /\ MANAGER_LOCK' = l
            /\ UNCHANGED <<MANAGER, nmgr>>
       ELSE Swap(t, ts, l, [mgrs EXCEPT ![MANAGER] = Cleared(r.m)], MANAGER, r.closed)

\* The body of `async with _MANAGER_LOCK` up to its first suspension.
EnsureBody(t, ts, l, susp) ==
    IF MANAGER # 0 /\ matches(mgrs[MANAGER], ts.req)
    THEN /\ task' = [task EXCEPT ![t] = [ts EXCEPT !.pc = "returned", !.mgr = MANAGER]]
         /\ MANAGER_LOCK' = Released(l)
         /\ UNCHANGED <<MANAGER, mgrs, nmgr>>
    ELSE IF NeedsClose(MANAGER)
    THEN CloseAndSwap(t, ts, l, mgrs[MANAGER], 1, susp)
    ELSE Swap(t, ts, l, mgrs, 0, {})

\* A turn calls ensure_mcp_manager.
Ensure(t, req, susp) ==
    /\ task[t].pc = "idle"
    /\ IF t = 1 THEN TRUE ELSE task[t - 1].pc # "idle"
    /\ IF LockFree(MANAGER_LOCK)
       THEN EnsureBody(t, [task[t] EXCEPT !.req = req],
                       [MANAGER_LOCK EXCEPT !.holder = t], susp)
       ELSE /\ task' = [task EXCEPT ![t] = [@ EXCEPT !.req = req, !.pc = "lockwait",
                                                      !.waited = TRUE]]
            /\ MANAGER_LOCK' = [MANAGER_LOCK EXCEPT !.waiters = Append(@, t)]
            /\ UNCHANGED <<MANAGER, mgrs, nmgr>>
    /\ UNCHANGED sent
    /\ UNCHANGED notMgr

\* The lock was handed to a waiting turn.
EnsureLocked(t, susp) ==
    /\ task[t].pc = "lockwait"
    /\ MANAGER_LOCK.holder = t
    /\ EnsureBody(t, task[t], MANAGER_LOCK, susp)
    /\ UNCHANGED sent
    /\ UNCHANGED notMgr

\* A close loop that leaves out the session after one whose close failed.
SkipsAfterFailure(i, raised) == IF raised THEN i + 2 ELSE i + 1

\* `for s in list(self._sessions.values())` with `except Exception: pass`
\* (lines 113-117): the session the loop goes on with after session i,
\* whether or not the close of session i raised.
NextToClose(i, raised) == i + 1

\* The suspended close of an HTTP client returns, or raises an Exception
\* that line 116 swallows.
CloseResumes(t, susp, raised) ==
    /\ task[t].pc = "closing"
    /\ CloseAndSwap(t, task[t], MANAGER_LOCK,
                    IF raised
                    THEN [mgrs[MANAGER] EXCEPT !.transport[task[t].idx] = "close_failed"]
                    ELSE mgrs[MANAGER],
                    NextToClose(task[t].idx, raised), susp)
    /\ UNCHANGED sent
    /\ UNCHANGED notMgr

\* connect(), one server: _connect_server, _sessions[name] = session,
\* initialize, list_tools, _register_tools.  `how` is "ok", or where it
\* raises: in the start of the transport, or in initialize or tools/list.
ConnectServer(t, how) ==
    /\ task[t].pc = "connecting"
    /\ LET i == task[t].idx
           m == mgrs[MANAGER]
       IN /\ how = "start_fails" => m.servers[i].transport = "stdio"
          /\ mgrs' = [mgrs EXCEPT ![MANAGER] =
                        IF how = "start_fails" THEN m
                        ELSE [m EXCEPT !.sessions[i] = TRUE,
                                       !.transport[i] = "open",
                                       !.bindings[i] = (how = "ok")]]
          /\ IF how # "ok"
             THEN /\ task' = [task EXCEPT ![t] = [@ EXCEPT !.pc = "raised", !.idx = 0]]
                  /\ MANAGER_LOCK' = Released(MANAGER_LOCK)
             ELSE IF i < Len(m.servers)
             THEN /\ task' = [task EXCEPT ![t] = [@ EXCEPT !.idx = i + 1]]
                  /\ MANAGER_LOCK' = MANAGER_LOCK
             ELSE /\ task' = [task EXCEPT ![t] = [@ EXCEPT !.pc = "returned", !.mgr = MANAGER,
                                                            !.idx = 0]]
                  /\ MANAGER_LOCK' = Released(MANAGER_LOCK)
    /\ UNCHANGED <<MANAGER, nmgr, sent>>
    /\ UNCHANGED notMgr

\* _register_tools: the model-facing name mcp_<server>__<tool> of the one
\* tool each server lists.
OpenAIName(server) ==
    CASE server.name = "builtin_filesystem" -> "mcp_builtin_filesystem__read_file"
      [] server.name = "builtin_fetch" -> "mcp_builtin_fetch__fetch"
      [] server.name = "files" -> "mcp_files__read_file"
      [] OTHER -> "mcp_web__fetch"

\* The names the model may ask for: every bound name, and one never bound.
ToolNames == {"mcp_builtin_filesystem__read_file", "mcp_builtin_fetch__fetch",
              "mcp_files__read_file", "mcp_web__fetch", "mcp_files__delete_all"}

\* self._tool_bindings.get(openai_tool_name): the server bound, 0 for None.
Binding(m, name) ==
    IF \E i \in 1..Len(m.servers) : m.bindings[i] /\ OpenAIName(m.servers[i]) = name
    THEN CHOOSE i \in 1..Len(m.servers) : m.bindings[i] /\ OpenAIName(m.servers[i]) = name
    ELSE 0

\* Arguments and results of the dispatched calls.
MgrArguments == {JObj(<<Entry("path", JStr(Rel(<<"sub", "file.txt">>)))>>),
                 JObj(<<Entry("path", JStr(Rel(<<"..", "..", "etc", "passwd">>)))>>)}
MgrResults == {JObj(<<Entry("status", JInt(200)), Entry("ok", JBool(TRUE))>>),
               JObj(<<Entry("data", JObj(<<Entry("status", JInt(500))>>))>>)}

\* A dispatch without the filesystem guard.
FsGuardNever(kind) == FALSE

\* `if binding.kind == "filesystem"` before the call.
FsGuardApplies(kind) == kind = "filesystem"

\* `if binding.kind == "fetch"` after the call.
FetchGuardApplies(kind) == kind = "fetch"
\* config.to_jsonable: dicts and lists are rebuilt from their converted
\* members, None, bool, int, float and str are returned as they are.
RECURSIVE to_jsonable(_)
to_jsonable(obj) ==
    IF obj.t = "obj"
    THEN JObj([i \in 1..Len(obj.es) |-> Entry(obj.es[i].k, to_jsonable(obj.es[i].v))])
    ELSE IF obj.t = "arr"
    THEN JArr([i \in 1..Len(obj.xs) |-> to_jsonable(obj.xs[i])])
    ELSE obj

\* How many dispatches the turns 1..k have begun.
RECURSIVE Dispatched(_)
Dispatched(k) ==
    IF k = 0 THEN 0
    ELSE Dispatched(k - 1) + task[k].n + (IF task[k].pc = "calling" THEN 1 ELSE 0)

Finished(ts, out, res) ==
    [ts EXCEPT !.pc = "returned", !.out = out, !.res = res, !.n = @ + 1, !.live = FALSE]

\* call_openai_tool up to the await of session.call_tool: the lookups, the
\* filesystem guard, and the request of the transport.  A stdio transport
\* whose _proc is None starts a child first; a closed HTTP client raises.
Dispatch(t, name, arguments) ==
    /\ task[t].pc = "returned"
    /\ task[t].mgr # 0
    /\ Dispatched(MaxTasks) < MaxDispatch
    /\ LET m == mgrs[task[t].mgr]
           b == Binding(m, name)
           ts == [task[t] EXCEPT !.srv = b, !.args = arguments, !.out = "none", !.res = JNull]
       IN IF b = 0
          THEN /\ task' = [task EXCEPT ![t] = Finished(ts, "unknown_tool", JNull)]
               /\ sent' = [sent EXCEPT ![t] = "none"]
               /\ UNCHANGED mgrs
          ELSE IF ~m.sessions[b]
          THEN /\ task' = [task EXCEPT ![t] = Finished(ts, "not_connected", JNull)]
               /\ sent' = [sent EXCEPT ![t] = "none"]
               /\ UNCHANGED mgrs
          ELSE IF /\ FsGuardApplies(m.servers[b].kind)
                  /\ guard_filesystem_tool_args(m.workspace_root, arguments).out # "pass"
          THEN /\ task' = [task EXCEPT ![t] = Finished(ts, "path_escapes", JNull)]
               /\ sent' = [sent EXCEPT ![t] = "none"]
               /\ UNCHANGED mgrs
          ELSE IF m.servers[b].transport = "http" /\ m.transport[b] = "closed"
          THEN /\ task' = [task EXCEPT ![t] = Finished(ts, "client_closed", JNull)]
               /\ sent' = [sent EXCEPT ![t] = "none"]
               /\ UNCHANGED mgrs
          ELSE /\ task' = [task EXCEPT ![t] = [ts EXCEPT !.pc = "calling", !.live = TRUE]]
               /\ mgrs' = [mgrs EXCEPT ![task[t].mgr].transport[b] = "open"]
               /\ sent' = [sent EXCEPT ![t] = IF m.transport[b] = "open" THEN "connected"
                                              ELSE "closed"]
    /\ UNCHANGED <<MANAGER, MANAGER_LOCK, nmgr>>
    /\ UNCHANGED notMgr

\* The server answers: the fetch guard, then to_jsonable(result) is returned.
DispatchReturns(t, result) ==
    /\ task[t].pc = "calling"
    /\ task[t].live
    /\ LET kind == mgrs[task[t].mgr].servers[task[t].srv].kind
       IN IF FetchGuardApplies(kind) /\ guard_fetch_tool_result(result) # "pass"
          THEN task' = [task EXCEPT ![t] = Finished(@, "fetch_rejected", JNull)]
          ELSE task' = [task EXCEPT ![t] = Finished(@, "result", to_jsonable(result))]
    /\ UNCHANGED <<MANAGER, MANAGER_LOCK, mgrs, nmgr, sent>>
    /\ UNCHANGED notMgr

\* The session was closed under the call: its future was cancelled.
DispatchCancelled(t) ==
    /\ task[t].pc = "calling"
    /\ ~task[t].live
    /\ task' = [task EXCEPT ![t] = Finished(@, "cancelled", JNull)]
    /\ UNCHANGED <<MANAGER, MANAGER_LOCK, mgrs, nmgr, sent>>
    /\ UNCHANGED notMgr

NextMgr ==
    \/ \E t \in Tasks, req \in Requests, susp \in BOOLEAN : Ensure(t, req, susp)
    \/ \E t \in Tasks, susp \in BOOLEAN : EnsureLocked(t, susp)
    \/ \E t \in Tasks, susp \in BOOLEAN, raised \in BOOLEAN : CloseResumes(t, susp, raised)
    \/ \E t \in Tasks, how \in {"ok", "start_fails", "initialize_fails"} : ConnectServer(t, how)
    \/ \E t \in Tasks, name \in ToolNames, arguments \in MgrArguments : Dispatch(t, name, arguments)
    \/ \E t \in Tasks, result \in MgrResults : DispatchReturns(t, result)
    \/ \E t \in Tasks : DispatchCancelled(t)

(***************************************************************************)
(* C3: concurrent ensure_mcp_manager callers asking for the same new       *)
(* identity get one Manager: as long as every turn that called asked for   *)
(* the same identity, at most one Manager was constructed and every caller *)
(* that was given a Manager was given that one.  The check and the swap    *)
(* are atomic under the lock: only the holder of the lock is inside the    *)
(* close or the connect, and a Manager is handed out only when nobody is   *)
(* still connecting it; a Manager handed out matches what was asked for.   *)
(***************************************************************************)
C3_OneManagerPerIdentity ==
    LET called == {t \in Tasks : task[t].pc # "idle"}
        given == {t \in Tasks : task[t].pc \in {"returned", "calling"} /\ task[t].mgr # 0}
        inside == {t \in Tasks : task[t].pc \in {"closing", "connecting"}}
        Same(r1, r2) == /\ ConfigSource(r1.path) = ConfigSource(r2.path)
                        /\ resolve(r1.root) = resolve(r2.root)
    IN /\ (\A t1, t2 \in called : Same(task[t1].req, task[t2].req)) =>
             /\ nmgr <= 1
             /\ \A t \in given : task[t].mgr = 1 /\ nmgr = 1
       /\ \A t \in inside : MANAGER_LOCK.holder = t
       /\ Cardinality(inside) <= 1
       /\ \A t \in given :
             /\ matches(mgrs[task[t].mgr], task[t].req)
             /\ \A u \in inside : ~(task[u].pc = "connecting" /\ MANAGER = task[t].mgr)

\* Two turns asked for the same identity, the second while the first held
\* the lock, and both were given the one Manager constructed.
C3_Witness ==
    /\ task[1].pc = "returned" /\ task[1].mgr = 1
    /\ task[2].pc = "returned" /\ task[2].mgr = 1
    /\ task[2].waited
    /\ nmgr = 1

(***************************************************************************)
(* C4 as stated: a call whose identity matches the current Manager returns it and    *)
(* closes or creates no session.  When the identity differs, the close of  *)
(* the old Manager has completed when the new one is constructed: its     *)
(* _sessions is empty and the transport of every session it held is        *)
(* closed.  After any step only the current Manager holds sessions.        *)
(***************************************************************************)
C4_ReuseOrCloseThenReplace ==
    [][LET HasSessions(m) == \E i \in 1..Len(mgrs'[m].servers) : mgrs'[m].sessions[i]
           OnlyCurrent == \A m \in MgrIds : HasSessions(m) => m = MANAGER'
           Reuse == \A t \in Tasks :
                       (/\ task[t].pc \in {"idle", "lockwait"}
                        /\ task'[t].pc = "returned"
                        /\ MANAGER # 0
                        /\ matches(mgrs[MANAGER], task'[t].req))
                       => /\ task'[t].mgr = MANAGER
                          /\ UNCHANGED <<MANAGER, mgrs, nmgr>>
           Replace == nmgr' = nmgr + 1 =>
                         /\ \A m \in 1..nmgr :
                               \A i \in 1..Len(mgrs'[m].servers) :
                                  /\ ~mgrs'[m].sessions[i]
                                  /\ mgrs[m].sessions[i] => mgrs'[m].transport[i] = "closed"
                         /\ MANAGER' = nmgr + 1
       IN OnlyCurrent /\ Reuse /\ Replace]_vars

(***************************************************************************)
(* C7 as stated: a dispatch fails with "unknown tool" when the name has no *)
(* binding and with "server not connected" when the server of the binding  *)
(* has no open session, and then no request reaches a tool server; in      *)
(* every reachable state a dispatch either calls a currently-connected     *)
(* session or fails with one of these errors (or is rejected by a guard).  *)
(***************************************************************************)
C7_DispatchCallsConnectedOrFails ==
    /\ \A t \in Tasks : sent[t] # "closed"
    /\ \A t \in Tasks :
          task[t].out \in {"none", "unknown_tool", "not_connected", "path_escapes",
                           "result", "fetch_rejected", "cancelled"}

(***************************************************************************)
(* C8: for a filesystem-kind binding the filesystem guard runs before the  *)
(* call: when a path-like argument resolves outside the workspace root the *)
(* dispatch fails and no tools/call request is sent.  For a fetch-kind     *)
(* binding the fetch guard runs after the call and before the result is    *)
(* returned: a result that fails it is never handed back.  Which of the    *)
(* dispatched arguments and results are acceptable is listed by hand.      *)
(***************************************************************************)
C8_GuardOrdering ==
    LET InsideArgs == {JObj(<<Entry("path", JStr(Rel(<<"sub", "file.txt">>)))>>)}
        GoodResults == {JObj(<<Entry("status", JInt(200)), Entry("ok", JBool(TRUE))>>)}
        Kind(m, i) == mgrs[m].servers[i].kind
    IN /\ \A t \in Tasks :
             /\ (sent[t] # "none" /\ Kind(task[t].mgr, task[t].srv) = "filesystem")
                   => task[t].args \in InsideArgs
             /\ (task[t].srv # 0 /\ Kind(task[t].mgr, task[t].srv) = "fetch"
                    /\ task[t].out = "result") => task[t].res \in GoodResults
             /\ task[t].out = "path_escapes" =>
                   /\ Kind(task[t].mgr, task[t].srv) = "filesystem"
                   /\ task[t].args \notin InsideArgs
                   /\ task[t].res = JNull
                   /\ sent[t] = "none"
             /\ task[t].out = "fetch_rejected" =>
                   /\ Kind(task[t].mgr, task[t].srv) = "fetch"
                   /\ task[t].res = JNull
                   /\ sent[t] # "none"

\* One dispatch was stopped by the filesystem guard with nothing sent, one
\* was stopped by the fetch guard after its request was sent.
C8_Witness ==
    /\ \E t \in Tasks : task[t].out = "path_escapes" /\ sent[t] = "none"
    /\ \E t \in Tasks : task[t].out = "fetch_rejected" /\ sent[t] # "none"

(***************************************************************************)
(* C33 as stated: when a turn with another identity closes the Manager     *)
(* while a tool call of this turn is outstanding on a subprocess server,   *)
(* the call ends as a failure that the loop turns into an error output,    *)
(* and the turn goes on: no dispatch on a subprocess server ends in a way  *)
(* that leaves the loop of its turn.                                       *)
(***************************************************************************)
C33_ReplacedManagerFailsCallAsToolError ==
    \A t \in Tasks :
        (/\ task[t].srv # 0
         /\ mgrs[task[t].mgr].servers[task[t].srv].transport = "stdio")
           => ~Propagates(task[t].out)

(***************************************************************************)
(* MCPManager.aclose and MCPManager.status                                 *)
(***************************************************************************)
\* status()["servers"]: connected is `s.name in self._sessions`.
status(m) ==
    [i \in 1..Len(m.servers) |->
        [name |-> m.servers[i].name, connected |-> m.sessions[i]]]

(***************************************************************************)
(* C37 as stated: the current Manager is always either absent or fully     *)
(* connected: whenever no turn is inside ensure_mcp_manager, _MANAGER is   *)
(* None or every server of its configuration has a session whose           *)
(* handshake and tool discovery succeeded (a Manager whose connect()       *)
(* failed is not kept).                                                    *)
(***************************************************************************)
C37_CurrentManagerFullyConnected ==
    (MANAGER # 0 /\ MANAGER_LOCK.holder = 0)
       => \A i \in 1..Len(mgrs[MANAGER].servers) :
             mgrs[MANAGER].sessions[i] /\ mgrs[MANAGER].bindings[i]

(***************************************************************************)
(* C39 as stated: status() reports a server as connected only if its       *)
(* session completed the initialize handshake and the tool discovery: a    *)
(* server whose initialize or tools/list failed in connect() is never      *)
(* listed with connected = true.                                           *)
(***************************************************************************)
C39_ConnectedMeansHandshakeDone ==
    \A m \in MgrIds :
        \A i \in 1..Len(mgrs[m].servers) :
            status(mgrs[m])[i].connected => mgrs[m].bindings[i]

\* The turns of this specification ask for the built-in servers or for the
\* configuration whose HTTP server comes first, so that a session is left
\* to close after the one whose close can fail.
CloseRequests == {[path |-> "", root |-> Abs(<<"workspace">>)],
                  [path |-> "web_first.json", root |-> Abs(<<"workspace">>)]}

NextClose ==
    \/ \E t \in Tasks, req \in CloseRequests, susp \in BOOLEAN : Ensure(t, req, susp)
    \/ \E t \in Tasks, susp \in BOOLEAN : EnsureLocked(t, susp)
    \/ \E t \in Tasks, susp \in BOOLEAN, raised \in BOOLEAN : CloseResumes(t, susp, raised)
    \/ \E t \in Tasks, how \in {"ok", "start_fails", "initialize_fails"} : ConnectServer(t, how)

(***************************************************************************)
(* C32: aclose() of a Manager attempts to close every session it holds     *)
(* even when the close of an earlier one fails, raises nothing to its      *)
(* caller, and leaves the Manager with no session: when the close of the   *)
(* current Manager is complete, the transport of every session it held is  *)
(* closed or its close was attempted and failed, status() reports every    *)
(* server as not connected, and the turn that closed it goes on.           *)
(***************************************************************************)
C32_CloseAttemptsEverySession ==
    [][/\ (MANAGER # 0 /\ MANAGER' # MANAGER)
            => /\ \A i \in 1..Len(mgrs[MANAGER].servers) :
                     /\ mgrs[MANAGER].sessions[i]
                           => mgrs'[MANAGER].transport[i] \in {"closed", "close_failed"}
                     /\ ~status(mgrs'[MANAGER])[i].connected
               /\ mgrs'[MANAGER].servers = mgrs[MANAGER].servers
       /\ \A t \in Tasks :
             task[t].pc = "closing"
                => task'[t].pc \in {"closing", "connecting", "returned"}]_vars

\* The close of the HTTP client of the first server raised, the session of
\* the second server was closed after it, and the Manager holds no session.
C32_Witness ==
    \E m \in MgrIds :
        /\ Len(mgrs[m].servers) = 2
        /\ mgrs[m].transport = <<"close_failed", "closed">>
        /\ \A i \in 1..2 : ~status(mgrs[m])[i].connected
        /\ MANAGER # m

(***************************************************************************)
(* C9: the filesystem guard accepts a call's arguments only if every       *)
(* string stored under a path-like key (compared case-insensitively), at   *)
(* any depth of objects and arrays, resolves to a location inside the      *)
(* workspace root once relative paths are joined to the root and traversal *)
(* segments and links are eliminated.  "../../etc/passwd" against          *)
(* /workspace fails; "sub/file.txt" resolves to /workspace/sub/file.txt.   *)
(* Which of the generated paths lie inside the root is listed by hand.     *)
(***************************************************************************)
C9_AcceptsOnlyInsideRoot ==
    LET InsideRoot == {Rel(<<"sub", "file.txt">>), Abs(<<"workspace", "sub", "file.txt">>),
                       Rel(<<"sub", "..", "..", "workspace", "x">>)}
        PathLike == {"path", "Target"}
        RECURSIVE AllInside(_)
        AllInside(v) ==
            IF v.t = "obj"
            THEN \A i \in 1..Len(v.es) :
                    /\ (v.es[i].v.t = "str" /\ v.es[i].k \in PathLike) => v.es[i].v.s \in InsideRoot
                    /\ AllInside(v.es[i].v)
            ELSE IF v.t = "arr"
            THEN \A i \in 1..Len(v.xs) : AllInside(v.xs[i])
            ELSE TRUE
    IN fs_out # "none" =>
          /\ fs_out = "pass" => AllInside(fs_args)
          /\ fs_args = JObj(<<Entry("path", JStr(Rel(<<"..", "..", "etc", "passwd">>)))>>)
                => fs_out = "escapes"
          /\ fs_args = JObj(<<Entry("path", JStr(Rel(<<"sub", "file.txt">>)))>>)
                => /\ fs_out = "pass"
                   /\ fs_resolved = <<Abs(<<"workspace", "sub", "file.txt">>)>>

\* Arguments with two path entries inside a list were accepted.
C9_Witness ==
    /\ fs_out = "pass"
    /\ fs_args.t = "arr"
    /\ Len(fs_resolved) = 2

(***************************************************************************)
(* C10 as stated: the fetch guard fails for every result that contains, at *)
(* any depth, an object with a `status` or `statusCode` field whose        *)
(* numeric value is outside [200, 299] or with `ok: false`, and it passes  *)
(* every result with no such object (a boolean status counts as the number *)
(* Python compares it as).                                                 *)
(***************************************************************************)
C10_FailsExactlyOnBadObject ==
    LET Num(v) == v.t \in {"int", "float"}
        Out(v) == v.n < 200 \/ v.n > 299
        BadField(es, key) == \E i \in 1..Len(es) : es[i].k = key /\ Num(es[i].v) /\ Out(es[i].v)
        OddField(es, key) == \E i \in 1..Len(es) : es[i].k = key /\ es[i].v.t = "bool"
        RECURSIVE Bad(_, _)
        Bad(v, loose) ==
            IF v.t = "obj"
            THEN \/ BadField(v.es, "status") \/ BadField(v.es, "statusCode")
                 \/ loose /\ (OddField(v.es, "status") \/ OddField(v.es, "statusCode"))
                 \/ \E i \in 1..Len(v.es) : v.es[i].k = "ok" /\ v.es[i].v = JBool(FALSE)
                 \/ \E i \in 1..Len(v.es) : Bad(v.es[i].v, loose)
            ELSE IF v.t = "arr"
            THEN \E i \in 1..Len(v.xs) : Bad(v.xs[i], loose)
            ELSE FALSE
    IN fetch_out # "none" =>
          /\ Bad(fetch_result, FALSE) => fetch_out # "pass"
          /\ ~Bad(fetch_result, TRUE) => fetch_out = "pass"

(***************************************************************************)
(* C5: the HTTP Tools request is re-attempted only after a transport-level *)
(* timeout or connection failure, a 5xx status or 429: every outcome that  *)
(* was followed by a sleep or by another attempt is one of these.  After   *)
(* any other 4xx status the request has failed at once with the HTTP error *)
(* of that status, and when that status answered the first attempt there   *)
(* was exactly one attempt and no retry.                                   *)
(***************************************************************************)
C5_RetryOnlyTransient ==
    LET Transient(o) == IF o.kind = "exc"
                        THEN o.exc \in {"TimeoutException", "ConnectError"}
                        ELSE o.code = 429 \/ (o.code >= 500 /\ o.code <= 599)
        Other4xx(o) == o.kind = "status" /\ o.code >= 400 /\ o.code <= 499 /\ o.code # 429
        n == Len(hist)
    IN /\ \A i \in 1..n : (i < n \/ hpc = "sleeping") => Transient(hist[i])
       /\ (n > 0 /\ Other4xx(hist[n])) =>
             /\ hpc = "done"
             /\ hout.kind = "http_error"
             /\ hout.code = hist[n].code
       /\ (n > 0 /\ Other4xx(hist[1])) => (n = 1 /\ attempt = 0)

\* A 404 answered the first attempt of a request that had retries left.
C5_Witness ==
    /\ hpc = "done"
    /\ max_retries >= 1
    /\ hist = <<Status(404)>>
    /\ hout.kind = "http_error"

(***************************************************************************)
(* C6: one HTTP Tools request makes at most max_retries + 1 attempts and   *)
(* always ends.  When it returns a response, that is the first successful  *)
(* one the server gave (503, 503, 200 is answered with the 200 after       *)
(* exactly two retries); when it fails it raises the HTTP error of the     *)
(* last response or the last exception of the client, as it does when all  *)
(* attempts are used up.                                                   *)
(***************************************************************************)
C6_BoundedAttemptsAndOutcome ==
    LET n == Len(hist)
        issued == n + (IF hpc = "inflight" THEN 1 ELSE 0)
        Success(o) == o.kind = "status" /\ o.code >= 200 /\ o.code <= 299
        Safe ==
            /\ issued <= max_retries + 1
            /\ hpc = "done" => n > 0
            /\ \A i \in 1..n : Success(hist[i]) =>
                  /\ i = n
                  /\ hpc = "done"
                  /\ hout = [kind |-> "response", code |-> hist[i].code, exc |-> "none"]
            /\ (hpc = "done" /\ hout.kind = "response") => Success(hist[n])
            /\ (hpc = "done" /\ n > 0 /\ ~Success(hist[n])) =>
                  IF hist[n].kind = "status"
                  THEN hout.kind = "http_error" /\ hout.code = hist[n].code
                  ELSE hout = Raised(hist[n].exc)
            /\ (hpc # "done" /\ n > 0) => issued + (IF hpc = "sleeping" THEN 1 ELSE 0) <= max_retries + 1
            /\ (hist = <<Status(503), Status(503)>> /\ max_retries >= 2) => hpc # "done"
            /\ hist = <<Status(503), Status(503), Status(200)>> => attempt = 2
    IN []Safe /\ ((hpc = "inflight") ~> (hpc = "done"))

\* The server answered 503, 503, 200 and the request returned the 200.
C6_Witness ==
    /\ hpc = "done"
    /\ hist = <<Status(503), Status(503), Status(200)>>
    /\ hout.kind = "response"
    /\ attempt = 2

(***************************************************************************)
(* manager._sanitize_json_schema_for_openai                                *)
(***************************************************************************)
\* `key in out`
HasKey(es, key) == \E i \in 1..Len(es) : es[i].k = key

\* out[key] = v on a dict: the value is replaced in place, a new key is
\* appended.
SetKey(es, key, v) ==
    IF HasKey(es, key)
    THEN [i \in 1..Len(es) |-> IF es[i].k = key THEN Entry(key, v) ELSE es[i]]
    ELSE Append(es, Entry(key, v))

\* t == "array" or (isinstance(t, list) and "array" in t)
IsArrayType(t) ==
    \/ t = JStr("array")
    \/ t.t = "arr" /\ \E i \in 1..Len(t.xs) : t.xs[i] = JStr("array")

RECURSIVE sanitize_json_schema_for_openai(_)
RECURSIVE sanitizeComposition(_, _)
sanitize_json_schema_for_openai(schema) ==
    IF schema.t # "obj" THEN schema
    ELSE LET out0 == schema.es
             t == Get(out0, "type", JNull)
             out1 == IF IsArrayType(t) /\ ~HasKey(out0, "items")
                     THEN SetKey(out0, "items", JObj(<<>>)) ELSE out0
             out2 == sanitizeComposition(out1, 1)
             props == Get(out2, "properties", JNull)
             out3 == IF props.t = "obj"
                     THEN SetKey(out2, "properties",
                                 JObj([i \in 1..Len(props.es) |->
                                         Entry(props.es[i].k,
                                               sanitize_json_schema_for_openai(props.es[i].v))]))
                     ELSE out2
             out4 == IF HasKey(out3, "items")
                     THEN SetKey(out3, "items",
                                 sanitize_json_schema_for_openai(Get(out3, "items", JNull)))
                     ELSE out3
             ap == Get(out4, "additionalProperties", JNull)
             out5 == IF ap.t = "obj"
                     THEN SetKey(out4, "additionalProperties",
                                 sanitize_json_schema_for_openai(ap))
                     ELSE out4
         IN JObj(out5)
\* `for key in ("anyOf", "oneOf", "allOf")` from the k-th key on.
sanitizeComposition(es, k) ==
    LET keys == <<"anyOf", "oneOf", "allOf">>
    IN IF k > Len(keys) THEN es
       ELSE LET v == Get(es, keys[k], JNull)
                es1 == IF v.t = "arr"
                       THEN SetKey(es, keys[k],
                                   JArr([i \in 1..Len(v.xs) |->
                                           sanitize_json_schema_for_openai(v.xs[i])]))
                       ELSE es
            IN sanitizeComposition(es1, k + 1)

(***************************************************************************)
(* MCPManager.connect, _register_tools and call_openai_tool, on one        *)
(* instance.  Server and tool names are sequences of one-character         *)
(* strings, so that _sanitize_name works on them as the code does.         *)
(***************************************************************************)
\* Servers in one configuration.
MaxServers == 2
\* Tools one server reports in tools/list.
MaxTools == 2

\* str.strip() removes white space.
Whitespace == {" "}
\* The characters _SAFE_NAME_RE leaves alone: [a-zA-Z0-9_].
SafeChars == {"a", "b", "c", "d", "e", "f", "g", "h", "i", "j", "k", "l", "m",
              "n", "o", "p", "q", "r", "s", "t", "u", "v", "w", "x", "y", "z",
              "A", "B", "C", "D", "E", "F", "G", "H", "I", "J", "K", "L", "M",
              "N", "O", "P", "Q", "R", "S", "T", "U", "V", "W", "X", "Y", "Z",
              "0", "1", "2", "3", "4", "5", "6", "7", "8", "9", "_"}

\* A strip that removes nothing.
NoStrip(s, cs) == s

\* s.strip(cs) for a set cs of characters: L is lstrip, R is rstrip.
Strip(s, cs) ==
    LET RECURSIVE L(_)
        L(x) == IF x # <<>> /\ Head(x) \in cs THEN L(Tail(x)) ELSE x
        RECURSIVE R(_)
        R(x) == IF x # <<>> /\ x[Len(x)] \in cs THEN R(SubSeq(x, 1, Len(x) - 1)) ELSE x
    IN R(L(s))

\* _sanitize_name(s).  Sub is _SAFE_NAME_RE.sub("_", x): every run of
\* other characters becomes one "_" (Skip drops the rest of the run);
\* Collapse is re.sub(r"_+", "_", x).
sanitize_name(s) ==
    LET RECURSIVE Skip(_)
        Skip(x) == IF x # <<>> /\ Head(x) \notin SafeChars THEN Skip(Tail(x)) ELSE x
        RECURSIVE Sub(_)
        Sub(x) == IF x = <<>> THEN <<>>
                  ELSE IF Head(x) \in SafeChars THEN <<Head(x)>> \o Sub(Tail(x))
                  ELSE <<"_">> \o Sub(Skip(x))
        RECURSIVE SkipUnderscores(_)
        SkipUnderscores(x) ==
            IF x # <<>> /\ Head(x) = "_" THEN SkipUnderscores(Tail(x)) ELSE x
        RECURSIVE Collapse(_)
        Collapse(x) == IF x = <<>> THEN <<>>
                       ELSE IF Head(x) = "_" THEN <<"_">> \o Collapse(SkipUnderscores(x))
                       ELSE <<Head(x)>> \o Collapse(Tail(x))
        s2 == Collapse(Sub(Strip(s, Whitespace)))
        s3 == Strip(s2, {"_"})
    IN IF s3 = <<>> THEN <<"t", "o", "o", "l">> ELSE s3

\* f"mcp_{server_safe}__{tool_safe}"
OpenAIToolName(server_safe, tool_safe) ==
    <<"m", "c", "p", "_">> \o server_safe \o <<"_", "_">> \o tool_safe

\* dict[k] = v
Put(d, k, v) == [x \in (DOMAIN d) \cup {k} |-> IF x = k THEN v ELSE d[x]]

\* The servers a configuration is made of (MCPServerConfig, the fields the
\* Manager reads): a subprocess server, a JSON-RPC HTTP server and an HTTP
\* server in mcp_tools mode.
ConnServers ==
    {[name |-> <<"a">>, transport |-> "stdio", http_mode |-> "jsonrpc",
      kind |-> "filesystem"],
     [name |-> <<"a", ".">>, transport |-> "http", http_mode |-> "jsonrpc",
      kind |-> "fetch"],
     [name |-> <<"w">>, transport |-> "http", http_mode |-> "mcp_tools",
      kind |-> "generic"]}
Configs == UNION {[1..n -> ConnServers] : n \in 1..MaxServers}

WeatherGetCurrent == <<"w", "e", "a", "t", "h", "e", "r", ".", "g", "e", "t", "_",
                       "c", "u", "r", "r", "e", "n", "t">>
\* The `name` a server reports for a tool (the empty name: none).
DiscoveredNames == {<<"a", ".", "b">>, <<"a", "_", "b">>, <<" ", "a", " ">>, <<".">>,
                    <<>>, WeatherGetCurrent}
DiscoveredTools == UNION {[1..n -> DiscoveredNames] : n \in 0..MaxTools}

\* No session.call_tool was made yet.  `given` is the arguments that
\* call_openai_tool received for the call.
NoCall == [session |-> "none", name |-> <<>>, arguments |-> JNull, given |-> JNull]

\* MCPManager.__init__ has not run yet.
InitConn ==
    /\ config = <<>>
    /\ sessions = <<>>
    /\ tools_openai = <<>>
    /\ tool_bindings = <<>>
    /\ cpc = "none"
    /\ cidx = 0
    /\ last_call = NoCall
    /\ cout = "none"

\* _connect_server(server): the session object it returns.
connect_server(server) ==
    IF server.transport = "stdio"
    THEN [cls |-> "MCPClientSession", transport |-> "StdioTransport",
          server_name |-> server.name]
    ELSE [cls |-> "MCPClientSession", transport |-> "HTTPTransport",
          server_name |-> server.name]

\* _register_tools(server, tools) from the i-th tool on: d is
\* [tools_openai, tool_bindings] so far.  A tool is its reported name; its
\* description is the default one, made of the tool name and the server
\* name, and its parameters are the default for a tool without inputSchema.
RECURSIVE register_tools(_, _, _, _)
register_tools(server, tools, i, d) ==
    IF i > Len(tools) THEN d
    ELSE LET tool_name == Strip(tools[i], Whitespace)
             openai_name == OpenAIToolName(sanitize_name(server.name),
                                           sanitize_name(tool_name))
             params == JObj(<<Entry("type", JStr("object")),
                              Entry("properties", JObj(<<>>)),
                              Entry("additionalProperties", JBool(TRUE))>>)
         IN IF tool_name = <<>>
            THEN register_tools(server, tools, i + 1, d)
            ELSE register_tools(server, tools, i + 1,
                     [tools_openai |->
                          Append(d.tools_openai,
                                 [name |-> openai_name,
                                  description |-> [tool |-> tool_name, server |-> server.name],
                                  parameters |-> sanitize_json_schema_for_openai(params)]),
                      tool_bindings |->
                          Put(d.tool_bindings, openai_name,
                              [server_name |-> server.name, mcp_tool_name |-> tool_name,
                               kind |-> server.kind])])

\* MCPManager(config=cfg, ...)
Construct(cfg) ==
    /\ cpc = "none"
    /\ config' = cfg
    /\ cpc' = "constructed"
    /\ UNCHANGED <<sessions, tools_openai, tool_bindings, cidx, last_call, cout>>
    /\ UNCHANGED notConn

\* One iteration of the loop of connect() (lines 105-110) for the next
\* server: the session is built and stored, initialize() and list_tools()
\* are awaited (ok: both return, list_tools with `tools`; otherwise one of
\* them raises and connect() raises), and the tools are registered.
ConnectStep(tools, ok) ==
    /\ cpc \in {"constructed", "connecting"}
    /\ LET server == config[cidx + 1]
           d == register_tools(server, tools, 1,
                               [tools_openai |-> tools_openai,
                                tool_bindings |-> tool_bindings])
       IN /\ sessions' = Put(sessions, server.name, connect_server(server))
          /\ IF ok
             THEN /\ tools_openai' = d.tools_openai
                  /\ tool_bindings' = d.tool_bindings
                  /\ cidx' = cidx + 1
                  /\ cpc' = IF cidx + 1 = Len(config) THEN "connected" ELSE "connecting"
             ELSE /\ cpc' = "failed"
                  /\ UNCHANGED <<tools_openai, tool_bindings, cidx>>
    /\ UNCHANGED <<config, last_call, cout>>
    /\ UNCHANGED notConn

\* The arguments the model sends with a tool call.
ConnArguments ==
    {JObj(<<Entry("latitude", JFloat(1)), Entry("longitude", JFloat(2)),
            Entry("timezone", JStr("Europe/Moscow"))>>),
     JObj(<<Entry("query", JStr("Berlin"))>>),
     JObj(<<Entry("path", JStr(Rel(<<"..", "..", "etc", "passwd">>)))>>)}

\* call_openai_tool(openai_tool_name, arguments) on the connected instance,
\* whose workspace root is /workspace; result is what session.call_tool
\* returns.
CallOpenAITool(openai_tool_name, arguments, result) ==
    /\ cpc = "connected"
    /\ cout = "none"
    /\ IF openai_tool_name \notin DOMAIN tool_bindings
       THEN /\ cout' = "unknown_tool"
            /\ UNCHANGED last_call
       ELSE LET binding == tool_bindings[openai_tool_name]
            IN IF binding.server_name \notin DOMAIN sessions
               THEN /\ cout' = "not_connected"
                    /\ UNCHANGED last_call
               ELSE IF /\ binding.kind = "filesystem"
                       /\ guard_filesystem_tool_args(Abs(<<"workspace">>), arguments).out # "pass"
               THEN /\ cout' = "path_escapes"
                    /\ UNCHANGED last_call
               ELSE /\ last_call' = [session |-> sessions[binding.server_name],
                                     name |-> binding.mcp_tool_name,
                                     arguments |-> arguments,
                                     given |-> arguments]
                    /\ cout' = IF /\ binding.kind = "fetch"
                                  /\ guard_fetch_tool_result(result) # "pass"
                               THEN "fetch_rejected" ELSE "returned"
    /\ UNCHANGED <<config, sessions, tools_openai, tool_bindings, cpc, cidx>>
    /\ UNCHANGED notConn

\* The tool names the model can send: every name a Manager can publish,
\* and one that none publishes.
CalledNames ==
    {OpenAIToolName(sanitize_name(s.name), sanitize_name(Strip(n, Whitespace))) :
         s \in ConnServers, n \in DiscoveredNames \ {<<>>}} \cup {<<"x">>}

NextConn ==
    \/ \E cfg \in Configs : Construct(cfg)
    \/ \E tools \in DiscoveredTools, ok \in BOOLEAN : ConnectStep(tools, ok)
    \/ \E n \in CalledNames, arguments \in ConnArguments, result \in MgrResults :
          CallOpenAITool(n, arguments, result)

(***************************************************************************)
(* C11: after connect(), no two published tool definitions share a name,   *)
(* and every published definition has exactly one binding, which maps      *)
(* back to the server and the tool name it was registered from.            *)
(***************************************************************************)
C11_PublishedNamesUnique ==
    cpc = "connected" =>
        /\ \A i, j \in 1..Len(tools_openai) :
              tools_openai[i].name = tools_openai[j].name => i = j
        /\ \A i \in 1..Len(tools_openai) :
              /\ tools_openai[i].name \in DOMAIN tool_bindings
              /\ tool_bindings[tools_openai[i].name].server_name
                     = tools_openai[i].description.server
              /\ tool_bindings[tools_openai[i].name].mcp_tool_name
                     = tools_openai[i].description.tool

(***************************************************************************)
(* C13: for a server configured with transport http and http_mode          *)
(* mcp_tools, connect() builds the HTTP Tools session, and the dispatch of *)
(* a tool of that server goes through that session, not through a          *)
(* session over the JSON-RPC HTTP transport.                               *)
(***************************************************************************)
C13_McpToolsServerGetsHttpToolsSession ==
    LET IsMcpTools(name) ==
            \E i \in 1..Len(config) :
                /\ config[i].name = name
                /\ config[i].transport = "http"
                /\ config[i].http_mode = "mcp_tools"
    IN /\ \A name \in DOMAIN sessions :
             IsMcpTools(name) => sessions[name].cls = "MCPHttpToolsSession"
       /\ (last_call # NoCall /\ IsMcpTools(last_call.session.server_name))
             => /\ last_call.session.cls = "MCPHttpToolsSession"
                /\ last_call.session.transport # "HTTPTransport"

(***************************************************************************)
(* C14: when a weather tool (weather.get_current) of an http_mode          *)
(* mcp_tools server is dispatched with arguments that include `timezone`,  *)
(* the arguments passed to the session's call_tool have no `timezone` key  *)
(* and the other arguments are passed through unchanged.                   *)
(***************************************************************************)
C14_WeatherTimezoneStripped ==
    (/\ last_call # NoCall
     /\ last_call.name = WeatherGetCurrent
     /\ \E i \in 1..Len(config) :
           /\ config[i].name = last_call.session.server_name
           /\ config[i].transport = "http"
           /\ config[i].http_mode = "mcp_tools"
     /\ HasKey(last_call.given.es, "timezone"))
    => /\ ~HasKey(last_call.arguments.es, "timezone")
       /\ \A k \in {"latitude", "longitude"} :
             /\ HasKey(last_call.arguments.es, k)
             /\ Get(last_call.arguments.es, k, JNull) = Get(last_call.given.es, k, JNull)

(***************************************************************************)
(* The input schemas of _sanitize_json_schema_for_openai                   *)
(***************************************************************************)
\* Layers of schema keywords around one innermost schema.
MaxSchemaDepth == 2

\* The schemas the function is applied to, nested d keywords deep.  Leaves
\* are the innermost schemas: a `type` alone, an array schema with items,
\* the empty schema and the boolean schema; Around(x) holds x one keyword
\* down.
RECURSIVE Schemas(_)
Schemas(d) ==
    LET Leaves ==
            {JObj(<<Entry("type", t)>>) :
                t \in {JStr("array"), JStr("object"),
                       JArr(<<JStr("array"), JStr("null")>>), JArr(<<JStr("string")>>)}}
                \cup {JObj(<<Entry("type", JStr("array")), Entry("items", JObj(<<>>))>>),
                      JObj(<<>>), JBool(TRUE)}
        Around(x) ==
            {JObj(<<Entry(k, JArr(<<x>>))>>) : k \in {"anyOf", "oneOf", "allOf"}}
                \cup {JObj(<<Entry("type", JStr("object")),
                             Entry("properties", JObj(<<Entry("p", x)>>))>>),
                      JObj(<<Entry("type", JStr("array")), Entry("items", x)>>),
                      JObj(<<Entry("type", JStr("array")), Entry("items", JArr(<<x>>))>>),
                      JObj(<<Entry("type", JStr("object")),
                             Entry("additionalProperties", x)>>),
                      JObj(<<Entry("type", JArr(<<JStr("array"), JStr("null")>>)),
                             Entry("anyOf",
                                   JArr(<<x, JObj(<<Entry("type", JStr("array"))>>)>>))>>)}
    IN IF d = 0 THEN Leaves
       ELSE LET inner == Schemas(d - 1)
            IN inner \cup UNION {Around(x) : x \in inner}

NotSanitized == [t |-> "none"]

InitSchema ==
    /\ input_schema = JNull
    /\ sanitized = NotSanitized

\* The function is applied to any generated schema.
InitSchemaInputs ==
    /\ input_schema \in Schemas(MaxSchemaDepth)
    /\ sanitized = NotSanitized

Sanitize ==
    /\ sanitized = NotSanitized
    /\ sanitized' = sanitize_json_schema_for_openai(input_schema)
    /\ UNCHANGED input_schema
    /\ UNCHANGED notSchema

NextSchema == Sanitize

(***************************************************************************)
(* C12: the sanitized schema has no node whose `type` is "array" or a list *)
(* containing "array" without a sibling `items` key, at any depth reached  *)
(* through anyOf/oneOf/allOf, properties, items and object-valued          *)
(* additionalProperties.                                                   *)
(***************************************************************************)
C12_NoArrayWithoutItems ==
    LET RECURSIVE Bare(_)
        Bare(node) ==
            /\ node.t = "obj"
            /\ \/ IsArrayType(Get(node.es, "type", JNull)) /\ ~HasKey(node.es, "items")
               \/ \E k \in {"anyOf", "oneOf", "allOf"} :
                     LET v == Get(node.es, k, JNull)
                     IN v.t = "arr" /\ \E i \in 1..Len(v.xs) : Bare(v.xs[i])
               \/ LET v == Get(node.es, "properties", JNull)
                  IN v.t = "obj" /\ \E i \in 1..Len(v.es) : Bare(v.es[i].v)
               \/ LET v == Get(node.es, "items", JNull)
                  IN \/ Bare(v)
                     \/ v.t = "arr" /\ \E i \in 1..Len(v.xs) : Bare(v.xs[i])
               \/ Bare(Get(node.es, "additionalProperties", JNull))
    IN sanitized # NotSanitized => ~Bare(sanitized)

(***************************************************************************)
(* MCPHttpToolsSession.call_tool: the arguments it puts on the wire        *)
(***************************************************************************)
\* A float that is not a whole number (n and a half), and a float that is
\* not finite (NaN, Infinity): json.loads produces both.
JFloatHalf(n) == [t |-> "float", n |-> n, half |-> TRUE]
JFloatNaN == [t |-> "float", special |-> "nan"]

\* The strings of the model.
ArgStrings == {"3", " 2 ", "x", "-3", "SUPERSCRIPT TWO", "Europe/Moscow"}
\* str.strip().isdigit(): the superscript two is a digit.
StripIsDigit(s) == s \in {"3", " 2 ", "SUPERSCRIPT TWO"}

\* int(v) for a float, int(v.strip()) for a string of digits: raises for
\* NaN, the infinities and the superscript two, which int() does not
\* accept; else truncates the float, reads the string.
IntOf(v) ==
    IF v.t = "float"
    THEN [raises |-> "special" \in DOMAIN v,
          n |-> IF "special" \in DOMAIN v THEN 0 ELSE v.n]
    ELSE [raises |-> v.s = "SUPERSCRIPT TWO", n |-> IF v.s = "3" THEN 3 ELSE 2]

\* The tools the workaround names.
WeatherTools == {"weather.get_current", "weather.get_forecast"}

\* A coercion that lets every int instance through, True and False too.
forecast_days_keeps_bool(fd) ==
    IF fd = JNull THEN JInt(1)
    ELSE IF IsInstanceInt(fd) THEN fd
    ELSE IF fd.t = "float" \/ (fd.t = "str" /\ StripIsDigit(fd.s))
    THEN (IF IntOf(fd).raises THEN JInt(1) ELSE JInt(IntOf(fd).n))
    ELSE JInt(1)

\* Lines 135-151: the value forecast_days has after them, for the value fd
\* that call_args.get("forecast_days", None) returned.
forecast_days_weather(fd) ==
    IF fd.t = "bool" \/ fd = JNull THEN JInt(1)
    ELSE IF fd.t = "int" THEN fd
    ELSE IF fd.t = "float" \/ (fd.t = "str" /\ StripIsDigit(fd.s))
    THEN (IF IntOf(fd).raises THEN JInt(1) ELSE JInt(IntOf(fd).n))
    ELSE JInt(1)

\* Lines 154-162: the value forecast_days has after them for a tool that
\* is not a weather tool, when the key is present with the value v.
forecast_days_other(v) ==
    IF IsInstanceInt(v) THEN v
    ELSE IF v.t = "float" \/ (v.t = "str" /\ StripIsDigit(v.s))
    THEN (IF IntOf(v).raises THEN v ELSE JInt(IntOf(v).n))
    ELSE v

\* Lines 130-162: call_args, the entries of the dict sent as `arguments`.
call_args(name, arguments) ==
    LET copy == IF Falsy(arguments) THEN <<>> ELSE arguments.es
        \* call_args.pop(key, None)
        Pop(es, key) ==
            LET RECURSIVE Sel(_)
                Sel(i) == IF i > Len(es) THEN <<>>
                          ELSE IF es[i].k # key THEN <<es[i]>> \o Sel(i + 1)
                          ELSE Sel(i + 1)
            IN Sel(1)
    IN IF name \in WeatherTools
       THEN LET popped == Pop(copy, "timezone")
                fd == Get(popped, "forecast_days", JNull)
            IN IF fd.t = "int" THEN popped
               ELSE SetKey(popped, "forecast_days", forecast_days_weather(fd))
       ELSE IF HasKey(copy, "forecast_days")
            THEN SetKey(copy, "forecast_days",
                        forecast_days_other(Get(copy, "forecast_days", JNull)))
            ELSE copy

ToolNamesCalled == {"weather.get_current", "weather.get_forecast", "weather.geocode"}
\* The arguments call_tool is given: None, or an object over three keys.
ToolArguments ==
    FlatObjects(<<"latitude", "timezone", "forecast_days">>,
                {JInt(3), JInt(0), JBool(TRUE), JNull, JFloat(2), JFloatHalf(2),
                 JFloatNaN, JArr(<<>>)} \cup {JStr(s) : s \in ArgStrings})
        \cup {JNull}

NoBody == [name |-> "none", arguments |-> JNull]

InitTool ==
    /\ ct_name = "none"
    /\ ct_arguments = JNull
    /\ ct_body = NoBody

\* call_tool is applied to any generated name and arguments.
InitToolInputs ==
    /\ ct_name \in ToolNamesCalled
    /\ ct_arguments \in ToolArguments
    /\ ct_body = NoBody

\* call_tool up to the POST of line 183: the body is built from a copy of
\* the arguments (line 130), the object of the caller is not written to.
CallTool ==
    /\ ct_body = NoBody
    /\ ct_body' = [name |-> ct_name, arguments |-> JObj(call_args(ct_name, ct_arguments))]
    /\ UNCHANGED <<ct_name, ct_arguments>>
    /\ UNCHANGED notTool

NextTool == CallTool

(***************************************************************************)
(* C15: for a weather tool call on the HTTP Tools transport, the arguments *)
(* on the wire never contain `timezone` and always contain forecast_days   *)
(* as an integer (never a boolean, a string or null): an integer input is  *)
(* kept, the value is 1 when the input is absent, boolean, null or not     *)
(* parseable as an integer, every other argument is sent as given, and     *)
(* the argument object of the caller is not modified.                      *)
(***************************************************************************)
C15_WeatherArgumentsNormalized ==
    [][(ct_body = NoBody /\ ct_body' # NoBody /\ ct_name \in WeatherTools)
       => LET given == IF ct_arguments.t = "obj" THEN ct_arguments.es ELSE <<>>
              wire == ct_body'.arguments.es
              fd == Get(given, "forecast_days", JNull)
              on_wire == Get(wire, "forecast_days", JNull)
              NotAnInteger ==
                  {JFloatNaN, JArr(<<>>), JStr("x"), JStr("SUPERSCRIPT TWO"),
                   JStr("Europe/Moscow")}
          IN /\ ~HasKey(wire, "timezone")
             /\ HasKey(wire, "forecast_days")
             /\ on_wire.t = "int"
             /\ fd.t = "int" => on_wire = fd
             /\ (~HasKey(given, "forecast_days") \/ fd.t = "bool" \/ fd = JNull
                    \/ fd \in NotAnInteger) => on_wire = JInt(1)
             /\ fd = JStr("3") => on_wire = JInt(3)
             /\ \A i \in 1..Len(given) :
                   given[i].k \notin {"timezone", "forecast_days"}
                       => Get(wire, given[i].k, JNull) = given[i].v
             /\ \A i \in 1..Len(wire) :
                   wire[i].k # "forecast_days" => HasKey(given, wire[i].k)
             /\ ct_arguments' = ct_arguments
             /\ ct_body'.name = ct_name]_vars

\* The example of the spec: weather.get_current with a timezone and an
\* unparseable forecast_days sent {"forecast_days": 1}.
C15_Witness ==
    /\ ct_name = "weather.get_current"
    /\ ct_arguments = JObj(<<Entry("timezone", JStr("Europe/Moscow")),
                             Entry("forecast_days", JStr("x"))>>)
    /\ ct_body = [name |-> "weather.get_current",
                  arguments |-> JObj(<<Entry("forecast_days", JInt(1))>>)]

(***************************************************************************)
(* C16: for every tool whose name is not in the weather family, the        *)
(* arguments sent on the wire are exactly the arguments the caller passed: *)
(* no key removed and no value changed.                                    *)
(***************************************************************************)
C16_OtherToolsArgumentsUntouched ==
    (ct_body # NoBody /\ ct_name \notin WeatherTools)
        => ct_body.arguments = (IF ct_arguments.t = "obj" THEN ct_arguments ELSE JObj(<<>>))

(***************************************************************************)
(* MCPClientSession.initialize over a transport                            *)
(***************************************************************************)
\* Tasks that call initialize() on one session.
MaxInitCallers == 2
\* initialize() calls made on the session.
MaxInits == 3

InitCallers == 1..MaxInitCallers

\* MCPClientSession.__init__ has not run yet.
InitSess ==
    /\ s_transport = "none"
    /\ initialized = FALSE
    /\ init_call = [c \in InitCallers |-> [pc |-> "idle", out |-> "none", raw |-> "none"]]
    /\ accepted = 0
    /\ nsent = 0
    /\ ninit = 0

\* Does transport.notify raise?  StdioTransport.notify awaits
\* _write_json_line with no handler around it; HTTPTransport.notify
\* returns from `except Exception`.
NotifyRaises(kind, delivered) == kind = "stdio" /\ ~delivered

\* MCPClientSession(transport, server_name=...)
NewSession(kind) ==
    /\ s_transport = "none"
    /\ s_transport' = kind
    /\ UNCHANGED <<initialized, init_call, accepted, nsent, ninit>>
    /\ UNCHANGED notSess

\* A task calls initialize(): it returns at once on an initialized
\* session, else it hands the initialize request to the transport and
\* suspends.
Initialize(c) ==
    /\ s_transport # "none"
    /\ init_call[c].pc \in {"idle", "done"}
    /\ ninit < MaxInits
    /\ ninit' = ninit + 1
    /\ IF initialized
       THEN /\ init_call' = [init_call EXCEPT ![c] = [pc |-> "done", out |-> "noop", raw |-> "none"]]
            /\ nsent' = nsent
       ELSE /\ init_call' = [init_call EXCEPT ![c] = [pc |-> "requesting", out |-> "none", raw |-> "none"]]
            /\ nsent' = nsent + 1
    /\ UNCHANGED <<s_transport, initialized, accepted>>
    /\ UNCHANGED notSess

ParsedAnyResponse(o) == o # "raises"

\* parse_response returns (the payload has no error member, or a null one)
\* instead of raising JSONRPCError.
ParsedOk(o) == o = "result"

\* The request of line 31 ends (raw is what it returned) and parse_response
\* runs: the peer answers
\* with a result, the peer answers with an error object (JSONRPCError), or
\* the transport raises.  With a result the `initialized` notification is
\* handed to the transport (line 35).
InitializeAnswered(c, o) ==
    /\ init_call[c].pc = "requesting"
    /\ IF ParsedOk(o)
       THEN /\ accepted' = accepted + 1
            /\ nsent' = nsent + 1
            /\ init_call' = [init_call EXCEPT ![c] = [pc |-> "notifying", out |-> "none", raw |-> o]]
       ELSE /\ init_call' = [init_call EXCEPT ![c] =
                                [pc |-> "done",
                                 out |-> IF o = "raises" THEN "request_error"
                                         ELSE "protocol_error",
                                 raw |-> IF o = "raises" THEN "none" ELSE o]]
            /\ UNCHANGED <<accepted, nsent>>
    /\ UNCHANGED <<s_transport, initialized, ninit>>
    /\ UNCHANGED notSess

\* transport.notify ends (delivered: the notification reached the peer):
\* when it returns, line 36 sets the flag; when it raises, initialize()
\* raises.
NotifyEnds(c, delivered) ==
    /\ init_call[c].pc = "notifying"
    /\ IF NotifyRaises(s_transport, delivered)
       THEN /\ init_call' = [init_call EXCEPT ![c].pc = "done", ![c].out = "notify_error"]
            /\ UNCHANGED initialized
       ELSE /\ init_call' = [init_call EXCEPT ![c].pc = "done", ![c].out = "ok"]
            /\ initialized' = TRUE
    /\ UNCHANGED <<s_transport, accepted, nsent, ninit>>
    /\ UNCHANGED notSess

NextSess ==
    \/ \E kind \in {"stdio", "http"} : NewSession(kind)
    \/ \E c \in InitCallers : Initialize(c)
    \/ \E c \in InitCallers, o \in {"result", "error_response", "raises"} :
          InitializeAnswered(c, o)
    \/ \E c \in InitCallers, delivered \in BOOLEAN : NotifyEnds(c, delivered)

(***************************************************************************)
(* C19: notify() is best-effort on every transport: when the delivery of   *)
(* the notification fails, notify() returns normally, so no initialize()   *)
(* call fails because the `initialized` notification was not delivered.    *)
(***************************************************************************)
C19_NotifyFailureNeverFailsHandshake ==
    \A c \in InitCallers : init_call[c].out # "notify_error"

(***************************************************************************)
(* C20: a session is initialized at most once: for any sequence or         *)
(* interleaving of initialize() calls, at most one initialize handshake    *)
(* accepted by the peer is performed, and an initialize() call on a        *)
(* session that is already initialized sends nothing to the transport.     *)
(***************************************************************************)
C20_InitializedAtMostOnce ==
    [][/\ accepted' <= 1
       /\ (initialized /\ ninit' = ninit + 1) => nsent' = nsent]_vars

(***************************************************************************)
(* C29: the handshake is ordered.  A call sends the `initialize` request   *)
(* first (and only on a session that is not initialized); the              *)
(* `initialized` notification is handed to the transport only by a call    *)
(* whose request was answered and parsed without a protocol error; the     *)
(* session becomes initialized only when a call that handed over the       *)
(* notification returns.  When the peer answers with a JSON-RPC error the  *)
(* call raises it, sends nothing more and leaves the flag as it was, and   *)
(* a later initialize() on the uninitialized session sends the request     *)
(* again.                                                                  *)
(***************************************************************************)
C29_HandshakeOrder ==
    [][\A c \in InitCallers :
        /\ (init_call'[c].pc = "requesting" /\ init_call[c].pc # "requesting")
              => /\ ~initialized
                 /\ init_call[c].pc \in {"idle", "done"}
                 /\ nsent' = nsent + 1
        /\ (init_call'[c].pc = "notifying" /\ init_call[c].pc # "notifying")
              => /\ init_call[c].pc = "requesting"
                 /\ init_call'[c].raw = "result"
                 /\ accepted' = accepted + 1
                 /\ nsent' = nsent + 1
        /\ (init_call[c].pc = "requesting" /\ init_call'[c].raw = "error_response")
              => /\ init_call'[c].pc = "done"
                 /\ init_call'[c].out = "protocol_error"
                 /\ nsent' = nsent
                 /\ accepted' = accepted
                 /\ initialized' = initialized
        /\ (initialized' /\ ~initialized)
              => \E d \in InitCallers :
                    /\ init_call[d].pc = "notifying"
                    /\ init_call'[d].pc = "done"
                    /\ init_call'[d].out = "ok"
        /\ (ninit' = ninit + 1 /\ ~initialized /\ init_call[c] # init_call'[c])
              => init_call'[c].pc = "requesting"
      ]_vars

\* One call was answered with a JSON-RPC error and raised it; another
\* handshake on the same session then went through: two requests and one
\* notification were sent, and the peer accepted one handshake.
C29_Witness ==
    /\ initialized
    /\ accepted = 1
    /\ nsent = 3
    /\ \E c \in InitCallers :
          init_call[c] = [pc |-> "done", out |-> "protocol_error", raw |-> "error_response"]

(***************************************************************************)
(* load_mcp_config and the retry delay of the HTTP Tools session           *)
(***************************************************************************)
\* Numbers of seconds are counted in ticks of 1/400 s (0.25 s is 100 ticks,
\* 0.5 s is 200, 5 s is 2000, 30 s is 12000); counts such as max_retries
\* are plain integers.

NotLoaded == [kind |-> "not_loaded"]
NoDelay == [base |-> 0 - 1, delay |-> 0 - 1, initial |-> 0, cap |-> 0, k |-> 0]

\* No configuration was loaded and no delay computed.
InitLoad ==
    /\ cfg_path = JNull
    /\ cfg_file = [t |-> "missing"]
    /\ loaded = NotLoaded
    /\ rdelay = NoDelay

\* _num (types int and float) and _int (type int alone) of one server
\* object: a bool is refused although it is an int instance, a present key
\* with any other value is refused, an absent key takes the default.
ConfigNumber(es, key, default, types) ==
    LET v == Get(es, key, default)
    IN IF v.t \in types THEN [raises |-> FALSE, n |-> v.n]
       ELSE [raises |-> TRUE, n |-> 0]

\* The body of the loop of load_mcp_config for one element s of `servers`:
\* the field whose check raises ("none" when no check does) and the
\* MCPServerConfig that is built.
load_server(s) ==
    IF s.t # "obj" THEN [error |-> "object"]
    ELSE
    LET es == s.es
        nm == Get(es, "name", JNull)
        name == IF nm.t = "str" THEN Strip(nm.s, Whitespace) ELSE <<>>
        tr == Get(es, "transport", JNull)
        kind == Get(es, "kind", JStr("generic"))
        command == Get(es, "command", JNull)
        url == Get(es, "url", JNull)
        mode == Get(es, "http_mode", JStr("jsonrpc"))
        timeout == ConfigNumber(es, "timeout_seconds", JFloat(12000), {"int", "float"})
        retries == ConfigNumber(es, "max_retries", JInt(3), {"int"})
        initial == ConfigNumber(es, "backoff_initial_seconds", JFloat(200), {"int", "float"})
        cap == ConfigNumber(es, "backoff_max_seconds", JFloat(2000), {"int", "float"})
    IN IF name = <<>> THEN [error |-> "name"]
       ELSE IF tr \notin {JStr("stdio"), JStr("http")} THEN [error |-> "transport"]
       ELSE IF kind \notin {JStr("filesystem"), JStr("fetch"), JStr("generic")}
       THEN [error |-> "kind"]
       ELSE IF /\ tr = JStr("stdio")
               /\ ~(command.t = "arr" /\ \A i \in 1..Len(command.xs) : command.xs[i].t = "str")
       THEN [error |-> "command"]
       ELSE IF tr = JStr("http") /\ ~(url.t = "str" /\ url.s \notin {"", " "})
       THEN [error |-> "url"]
       ELSE IF mode \notin {JStr("jsonrpc"), JStr("mcp_tools")} THEN [error |-> "http_mode"]
       ELSE IF timeout.raises \/ timeout.n <= 0 THEN [error |-> "timeout_seconds"]
       ELSE IF retries.raises \/ retries.n < 0 THEN [error |-> "max_retries"]
       ELSE IF initial.raises \/ initial.n < 0 THEN [error |-> "backoff_initial_seconds"]
       ELSE IF cap.raises \/ cap.n < 0 THEN [error |-> "backoff_max_seconds"]
       ELSE [error |-> "none", name |-> name, transport |-> tr.s, kind |-> kind.s,
             http_mode |-> mode.s, timeout_seconds |-> timeout.n,
             max_retries |-> retries.n, backoff_initial_seconds |-> initial.n,
             backoff_max_seconds |-> cap.n]

\* load_mcp_config(path), file being what the file system holds at the
\* path: missing, text that json.loads refuses, or the JSON value read.
load_mcp_config_file(p, file) ==
    IF p \in {JNull, JStr("")} THEN [kind |-> "none"]
    ELSE IF file.t = "missing" THEN [kind |-> "raises", error |-> "not_found"]
    ELSE IF file.t = "malformed" THEN [kind |-> "raises", error |-> "json"]
    ELSE LET servers_raw == IF file.t = "obj" THEN Get(file.es, "servers", JNull) ELSE JNull
         IN IF servers_raw.t # "arr" THEN [kind |-> "raises", error |-> "servers"]
            ELSE LET servers == [i \in 1..Len(servers_raw.xs) |->
                                    load_server(servers_raw.xs[i])]
                     bad == {i \in 1..Len(servers) : servers[i].error # "none"}
                 IN IF bad = {} THEN [kind |-> "config", servers |-> servers]
                    ELSE LET idx == CHOOSE i \in bad : \A j \in bad : i <= j
                         IN [kind |-> "raises", error |-> servers[idx].error,
                             idx |-> idx - 1]

\* _retry_delay(attempt) of a session built with backoff_initial_seconds
\* initial and backoff_max_seconds cap, random.random() returning r/4.
retry_delay(initial, cap, k, r) ==
    LET RECURSIVE Pow2(_)
        Pow2(n) == IF n = 0 THEN 1 ELSE 2 * Pow2(n - 1)
        base0 == initial * Pow2(k)
        base == IF cap < base0 THEN cap ELSE base0
        jitter_cap == IF base < 100 THEN base ELSE 100
    IN [base |-> base, delay |-> base + (r * jitter_cap) \div 4]

\* The paths the loader is given: None, the empty string, a file name.
ConfigPaths == {JNull, JStr(""), JStr("mcp.json")}

\* What the file system holds at the path.  The server objects are HTTP
\* servers in mcp_tools mode with every combination of a few values of the
\* retry fields, and one object for each check of the loader.
ConfigFiles ==
    LET Absent == [t |-> "absent"]
        Opt(k, v) == IF v.t = "absent" THEN <<>> ELSE <<Entry(k, v)>>
        Named == <<Entry("name", JStr(<<"w">>))>>
        Http == Named \o <<Entry("transport", JStr("http")), Entry("url", JStr("http://w"))>>
        Tools(bi, bm, mr) ==
            JObj(Http \o <<Entry("http_mode", JStr("mcp_tools"))>>
                      \o Opt("max_retries", mr)
                      \o Opt("backoff_initial_seconds", bi)
                      \o Opt("backoff_max_seconds", bm))
        Retrying ==
            {Tools(bi, bm, mr) :
                bi \in {Absent, JInt(0), JFloat(200), JInt(800), JFloat(0 - 4), JBool(TRUE)},
                bm \in {Absent, JFloat(0), JInt(400), JFloat(0 - 4)},
                mr \in {Absent, JInt(1), JInt(0 - 1), JFloat(2)}}
        Stdio == JObj(Named \o <<Entry("transport", JStr("stdio")),
                                 Entry("kind", JStr("filesystem")),
                                 Entry("command", JArr(<<JStr("srv")>>))>>)
        Checked ==
            {JStr("w"), JObj(<<>>), JObj(<<Entry("name", JStr(<<" ">>))>>), JObj(Named),
             JObj(Named \o <<Entry("transport", JStr("pipe"))>>),
             JObj(Named \o <<Entry("transport", JStr("stdio")), Entry("kind", JStr("db"))>>),
             JObj(Named \o <<Entry("transport", JStr("stdio"))>>),
             JObj(Named \o <<Entry("transport", JStr("stdio")),
                             Entry("command", JArr(<<JInt(1)>>))>>),
             Stdio,
             JObj(Named \o <<Entry("transport", JStr("http"))>>),
             JObj(Named \o <<Entry("transport", JStr("http")), Entry("url", JStr(" "))>>),
             JObj(Http), JObj(Http \o <<Entry("http_mode", JStr("sse"))>>),
             JObj(Http \o <<Entry("timeout_seconds", JInt(0))>>),
             JObj(Http \o <<Entry("timeout_seconds", JNull)>>)}
    IN {[t |-> "missing"], [t |-> "malformed"], JNull, JArr(<<>>), JObj(<<>>),
        JObj(<<Entry("servers", JObj(<<>>))>>), JObj(<<Entry("servers", JArr(<<>>))>>),
        JObj(<<Entry("servers", JArr(<<Stdio, Tools(JInt(800), JInt(400), JInt(2))>>))>>),
        JObj(<<Entry("servers", JArr(<<Stdio, JObj(Named)>>))>>)}
           \cup {JObj(<<Entry("servers", JArr(<<s>>))>>) : s \in Retrying \cup Checked}

\* The loader is applied to any of the paths and files.
InitLoadInputs ==
    /\ cfg_path \in ConfigPaths
    /\ cfg_file \in ConfigFiles
    /\ loaded = NotLoaded
    /\ rdelay = NoDelay

\* load_mcp_config(cfg_path) returns or raises.
Load ==
    /\ loaded = NotLoaded
    /\ loaded' = load_mcp_config_file(cfg_path, cfg_file)
    /\ UNCHANGED <<cfg_path, cfg_file, rdelay>>
    /\ UNCHANGED notLoad

\* An HTTP Tools session built with the retry fields of the i-th loaded
\* server waits before its retry number k (0-based): the loop of
\* _request_with_retries calls _retry_delay(attempt) for
\* attempt < attempts_total - 1, attempts_total being max(1, max_retries + 1).
RetryDelay(i, k, r) ==
    /\ loaded.kind = "config"
    /\ i <= Len(loaded.servers)
    /\ loaded.servers[i].http_mode = "mcp_tools"
    /\ k < loaded.servers[i].max_retries
    /\ LET s == loaded.servers[i]
           d == retry_delay(s.backoff_initial_seconds, s.backoff_max_seconds, k, r)
       IN rdelay' = [base |-> d.base, delay |-> d.delay,
                     initial |-> s.backoff_initial_seconds,
                     cap |-> s.backoff_max_seconds, k |-> k]
    /\ UNCHANGED <<cfg_path, cfg_file, loaded>>
    /\ UNCHANGED notLoad

NextLoad ==
    \/ Load
    \/ \E i \in 1..2, k \in 0..2, r \in 0..3 : RetryDelay(i, k, r)

(***************************************************************************)
(* C21: for every configuration the loader accepts, the delay the HTTP     *)
(* Tools session waits before retry k (0-based) is at least                *)
(* backoff_initial_seconds, at least                                       *)
(* min(backoff_initial_seconds * 2^k, backoff_max_seconds), and exceeds    *)
(* that minimum by less than 0.25 s (100 ticks).                           *)
(***************************************************************************)
C21_RetryDelayBounds ==
    rdelay # NoDelay
        => LET p == rdelay.initial * (IF rdelay.k = 0 THEN 1 ELSE IF rdelay.k = 1 THEN 2 ELSE 4)
               least == IF p <= rdelay.cap THEN p ELSE rdelay.cap
           IN /\ rdelay.delay >= rdelay.initial
              /\ rdelay.delay >= least
              /\ rdelay.delay - least < 100

(***************************************************************************)
(* C22: loading with an absent path, or with a path whose file is missing, *)
(* yields "MCP disabled": the loader returns no configuration and raises   *)
(* nothing.                                                                *)
(***************************************************************************)
C22_MissingFileDisablesMcp ==
    (loaded # NotLoaded /\ (cfg_path \in {JNull, JStr("")} \/ cfg_file.t = "missing"))
        => loaded.kind = "none"

(***************************************************************************)
(* _sanitize_name and the model-facing name, on any strings                *)
(***************************************************************************)
\* Longest generated name.
MaxNameLen == 3

\* The strings of at most n characters over letters, a digit, the
\* underscore, and three characters outside [a-zA-Z0-9_].
RECURSIVE NameStrings(_)
NameStrings(n) ==
    IF n = 0 THEN {<<>>}
    ELSE LET shorter == NameStrings(n - 1)
         IN shorter \cup {Append(x, c) : x \in shorter, c \in {"a", "B", "7", "_", ".", " ", "!"}}

\* Server names, and the examples: "weather", "weather.get_current",
\* "weather.get_current!".
ServerNames == {<<"w">>, <<"_">>, <<"w", "e", "a", "t", "h", "e", "r">>}
ToolNameStrings ==
    NameStrings(MaxNameLen) \cup {WeatherGetCurrent, Append(WeatherGetCurrent, "!")}

NotNamed == [server_safe |-> <<>>, tool_safe |-> <<>>, openai_name |-> <<>>]

InitName ==
    /\ nm_server = <<>>
    /\ nm_tool = <<>>
    /\ nm_out = NotNamed

\* The names are any of the generated strings.
InitNameInputs ==
    /\ nm_server \in ServerNames
    /\ nm_tool \in ToolNameStrings
    /\ nm_out = NotNamed

\* Lines 174, 179 and 180 of _register_tools on a server name and a tool
\* name.
SanitizeNames ==
    /\ nm_out = NotNamed
    /\ LET server_safe == sanitize_name(nm_server)
           tool_safe == sanitize_name(nm_tool)
       IN nm_out' = [server_safe |-> server_safe, tool_safe |-> tool_safe,
                     openai_name |-> OpenAIToolName(server_safe, tool_safe)]
    /\ UNCHANGED <<nm_server, nm_tool>>
    /\ UNCHANGED notName

NextName == SanitizeNames

MaxLines == 1

\* A response object carrying `id`.
ResponseLine(id) == JObj(<<Entry("id", id), Entry("result", JObj(<<>>))>>)

\* What a child writes on a line: text json.loads refuses, a JSON array, a
\* notification, and responses whose id is an integer (0 was never
\* issued), a string, or the JSON literal true.
OutputLines ==
    {[t |-> "malformed"], JArr(<<JInt(1)>>), JObj(<<Entry("method", JStr("n"))>>),
     ResponseLine(JStr("1")), ResponseLine(JBool(TRUE))}
        \cup {ResponseLine(JInt(i)) : i \in Ids \cup {0}}

InitWire == pipe = [k \in Children |-> <<>>]

\* Lines 42-53 of _reader_loop for the line ln: the pending table and the
\* futures after them.
reader_line(ln) ==
    LET msg_id == IF ln.t = "obj" THEN Get(ln.es, "id", JNull) ELSE JNull
    IN IF ln.t = "obj" /\ IsInstanceInt(msg_id) /\ ReaderPops(IntValue(msg_id))
       THEN [pending |-> pending \ {IntValue(msg_id)},
             fut |-> IF fut[IntValue(msg_id)] = "pending"
                     THEN [fut EXCEPT ![IntValue(msg_id)] = "result"] ELSE fut]
       ELSE [pending |-> pending, fut |-> fut]

\* The child k writes a line on its output; a response with the id of a
\* request answers a request the child has read.
ChildWrites(k, ln) ==
    /\ child[k].state = "alive"
    /\ Len(pipe[k]) < MaxLines
    /\ (ln.t = "obj" /\ Get(ln.es, "id", JNull).t = "int" /\ Get(ln.es, "id", JNull).n # 0)
          => Get(ln.es, "id", JNull).n \in child[k].got
    /\ pipe' = [pipe EXCEPT ![k] = Append(@, ln)]
    /\ UNCHANGED notWire

\* _reader_loop of child k, one iteration: readline() returns the oldest
\* line of the pipe.
ReadLine(k) ==
    /\ reader[k] = "running"
    /\ pipe[k] # <<>>
    /\ pending' = reader_line(Head(pipe[k])).pending
    /\ fut' = reader_line(Head(pipe[k])).fut
    /\ pipe' = [pipe EXCEPT ![k] = Tail(@)]
    /\ UNCHANGED <<proc, reader_task, write_lock, id_counter, child, reader, nspawn,
                   call, closes>>
    /\ UNCHANGED notStdioWire

NextWire ==
    \/ \E c \in Callers, o \in StdioOps, stall \in BOOLEAN : Call(c, o, stall)
    \/ \E c \in Callers, stall \in BOOLEAN : SpawnDone(c, stall)
    \/ \E c \in Callers, stall \in BOOLEAN : LockGranted(c, stall)
    \/ \E c \in Callers : DrainDone(c)
    \/ \E c \in Callers : FutResolved(c)
    \/ \E k \in Children, ln \in OutputLines : ChildWrites(k, ln)
    \/ \E k \in Children : ReadLine(k)
    \/ \E k \in Children : ReaderEOF(k)
    \/ Aclose
    \/ \E k \in Children : ChildExits(k)

(***************************************************************************)
(* C24: responses are correlated purely by id.  When the reader reads a    *)
(* line that parses to an object with an integer `id` equal to the id of a *)
(* pending request, exactly that request is resolved and removed from the  *)
(* pending table, in whatever order responses arrive; when it reads a line *)
(* that does not correlate (a notification, malformed JSON, a non-object,  *)
(* an id that is not an integer or not pending) no request is resolved and *)
(* the pending table is unchanged.                                         *)
(***************************************************************************)
C24_CorrelatedPurelyById ==
    [][\A k \in Children :
          (pipe[k] # <<>> /\ pipe'[k] = Tail(pipe[k]))
             => LET ln == Head(pipe[k])
                    id == IF ln.t = "obj" THEN Get(ln.es, "id", JNull) ELSE JNull
                IN IF id.t = "int" /\ id.n \in pending
                   THEN /\ pending' = pending \ {id.n}
                        /\ fut[id.n] = "pending"
                        /\ fut' = [fut EXCEPT ![id.n] = "result"]
                   ELSE /\ pending' = pending
                        /\ fut' = fut]_vars

(***************************************************************************)
(* C25: each pending request of the subprocess transport is resolved at    *)
(* most once, by one of {response received, transport closed, cancelled}:  *)
(* under any interleaving of response lines, end-of-file and aclose(), a   *)
(* future that is done is never set again, a future is set to a result     *)
(* only by the reader taking its id from the pending table, to "server     *)
(* closed" only by the reader at end-of-file, to "cancelled" only by       *)
(* aclose(), and a response for an id that is already resolved changes     *)
(* nothing.                                                                *)
(***************************************************************************)
C25_ResolvedExactlyOnce ==
    [][\A i \in Ids :
          /\ fut[i] \notin {"none", "pending"} => fut'[i] = fut[i]
          /\ (fut[i] = "pending" /\ fut'[i] # "pending")
                => /\ i \in pending /\ i \notin pending'
                   /\ \/ fut'[i] = "result" /\ pending' = pending \ {i}
                                            /\ reader' = reader /\ closes' = closes
                      \/ fut'[i] = "server_closed" /\ pending' = {} /\ closes' = closes
                            /\ \E k \in Children :
                                  reader[k] = "running" /\ reader'[k] = "finished"
                      \/ fut'[i] = "cancelled" /\ pending' = {} /\ closes' = closes + 1
          /\ \A c \in Callers :
                (call[c].pc = "awaiting" /\ call'[c].pc = "done" /\ call[c].rid = i)
                   => call'[c].out = fut[i]]_vars

\* One request was answered, the other was cancelled by aclose(), and a
\* reader saw end-of-file.
C25_Witness ==
    /\ fut = <<"result", "cancelled">>
    /\ \E k \in Children : reader[k] = "finished"
    /\ \A c \in Callers : call[c].pc = "done"

(***************************************************************************)
(* C26: when the reader of the subprocess transport observes end-of-file   *)
(* on the child's output, every request pending at that moment is resolved *)
(* with the "server closed" failure and the pending table is empty         *)
(* afterwards.                                                             *)
(***************************************************************************)
C26_EOFFailsAllPending ==
    [][\A k \in Children :
          (reader[k] = "running" /\ reader'[k] = "finished")
             => /\ pending' = {}
                /\ \A i \in pending : fut[i] = "pending" /\ fut'[i] = "server_closed"
                /\ \A i \in Ids \ pending : fut'[i] = fut[i]]_vars

\* Two requests were pending when the reader saw end-of-file, and their
\* callers got the failure.
C26_Witness ==
    /\ fut = <<"server_closed", "server_closed">>
    /\ pending = {}
    /\ \A c \in Callers : call[c].out = "server_closed"

(***************************************************************************)
(* C27: writes to the child's input are mutually exclusive: in every       *)
(* reachable state at most one task is inside the write-and-drain section  *)
(* of the transport, and it holds the write lock, so the bytes of two JSON *)
(* lines written by concurrent callers are never interleaved.              *)
(***************************************************************************)
C27_WritesMutuallyExclusive ==
    /\ Cardinality({c \in Callers : call[c].pc = "draining"}) <= 1
    /\ \A c \in Callers : call[c].pc = "draining" => write_lock.holder = c
    /\ \A c \in Callers : call[c].pc = "lockwait"
          => \/ write_lock.holder = c
             \/ \E i \in 1..Len(write_lock.waiters) : write_lock.waiters[i] = c

\* One caller is suspended in drain() holding the lock while the other is
\* queued on the lock.
C27_Witness ==
    /\ call[1].pc = "draining"
    /\ call[2].pc = "lockwait"
    /\ write_lock = [holder |-> 1, waiters |-> <<2>>]

(***************************************************************************)
(* jsonrpc.next_id, called by the request() of every transport             *)
(***************************************************************************)
\* Ids drawn in one run.
MaxIssued == 4

\* The transports of the process: two subprocess transports and one HTTP
\* transport.
Transports == {"stdio_a", "stdio_b", "http_a"}
IsStdio(t) == t \in {"stdio_a", "stdio_b"}

\* No id was drawn and no transport has a pending request.
InitIds ==
    /\ ids_issued = <<>>
    /\ tpending = [t \in Transports |-> {}]

\* A counter that returns the same value again.
CounterStuck(n) == n

\* next(_id_counter) for itertools.count(1): the value following n.
NextCounter(n) == n + 1

\* request() of transport t up to its first suspension: StdioTransport
\* draws the id and registers the future under it (lines 76-79), and
\* HTTPTransport draws the id (line 44).
TransportRequest(t) ==
    /\ Len(ids_issued) < MaxIssued
    /\ ids_issued' = Append(ids_issued, [transport |-> t, rid |-> id_counter])
    /\ id_counter' = NextCounter(id_counter)
    /\ tpending' = IF IsStdio(t) THEN [tpending EXCEPT ![t] = @ \cup {id_counter}]
                   ELSE tpending
    /\ UNCHANGED <<proc, reader_task, pending, fut, write_lock, child, reader, nspawn,
                   call, closes>>
    /\ UNCHANGED notStdioIds

\* The reader of a subprocess transport pops the id i of a response
\* (line 50).
ResponsePopped(t, i) ==
    /\ i \in tpending[t]
    /\ tpending' = [tpending EXCEPT ![t] = @ \ {i}]
    /\ UNCHANGED ids_issued
    /\ UNCHANGED notIds

\* The pending table of a subprocess transport is cleared at end-of-file
\* and by aclose() (lines 60 and 100).
PendingCleared(t) ==
    /\ tpending[t] # {}
    /\ tpending' = [tpending EXCEPT ![t] = {}]
    /\ UNCHANGED ids_issued
    /\ UNCHANGED notIds

NextIds ==
    \/ \E t \in Transports : TransportRequest(t)
    \/ \E t \in Transports, i \in 1..8 : ResponsePopped(t, i)
    \/ \E t \in Transports : PendingCleared(t)

(***************************************************************************)
(* C28: request ids come from one counter shared by all transports of the  *)
(* process: across any interleaving of requests on subprocess and HTTP     *)
(* transports each new id is strictly greater than every id ids_issued before  *)
(* it, so no id is ids_issued twice, and no two pending requests, of one       *)
(* transport or of two, ever share an id.                                  *)
(***************************************************************************)
C28_IdsStrictlyIncreasing ==
    [][/\ Len(ids_issued') > Len(ids_issued)
          => \A j \in 1..Len(ids_issued) : ids_issued[j].rid < ids_issued'[Len(ids_issued')].rid
       /\ \A j, k \in 1..Len(ids_issued') : j # k => ids_issued'[j].rid # ids_issued'[k].rid
       /\ \A t, u \in Transports : t # u => tpending'[t] \cap tpending'[u] = {}
       /\ \A t \in Transports : \A i \in tpending'[t] :
             Cardinality({j \in 1..Len(ids_issued') :
                             ids_issued'[j].rid = i /\ ids_issued'[j].transport = t}) = 1]_vars

\* Requests of the three transports interleaved, three of them pending.
C28_Witness ==
    /\ ids_issued = <<[transport |-> "stdio_a", rid |-> 1], [transport |-> "http_a", rid |-> 2],
                  [transport |-> "stdio_b", rid |-> 3], [transport |-> "stdio_a", rid |-> 4]>>
    /\ tpending = [t \in Transports |->
                      IF t = "stdio_a" THEN {1, 4} ELSE IF t = "stdio_b" THEN {3} ELSE {}]

Init == InitStdio /\ InitLoop /\ InitHttp /\ InitFetch /\ InitFs /\ InitMgr /\ InitConn /\ InitSchema /\ InitTool /\ InitSess /\ InitLoad /\ InitName /\ InitWire /\ InitIds

SpecStdio == Init /\ [][NextStdio]_vars

SpecLoop == Init /\ [][NextLoop]_vars

SpecHttp == Init /\ [][NextHttp]_vars

SpecMgr == Init /\ [][NextMgr]_vars

SpecConn == Init /\ [][NextConn]_vars

SpecSess == Init /\ [][NextSess]_vars

\* The guard alone, on every generated result.
InitGuardFetch == InitStdio /\ InitLoop /\ InitHttp /\ InitFetchInputs /\ InitFs /\ InitMgr /\ InitConn /\ InitSchema /\ InitTool /\ InitSess /\ InitLoad /\ InitName /\ InitWire /\ InitIds

SpecFetch == InitGuardFetch /\ [][NextFetch]_vars

\* The guard alone, on every generated root and arguments.
InitGuardFs == InitStdio /\ InitLoop /\ InitHttp /\ InitFetch /\ InitFsInputs /\ InitMgr /\ InitConn /\ InitSchema /\ InitTool /\ InitSess /\ InitLoad /\ InitName /\ InitWire /\ InitIds

SpecFs == InitGuardFs /\ [][NextFs]_vars

\* The sanitizer alone, on every generated schema.
InitSanitize == InitStdio /\ InitLoop /\ InitHttp /\ InitFetch /\ InitFs /\ InitMgr /\ InitConn /\ InitSchemaInputs /\ InitTool /\ InitSess /\ InitLoad /\ InitName /\ InitWire /\ InitIds

SpecSchema == InitSanitize /\ [][NextSchema]_vars

\* call_tool alone, on every generated name and arguments.
InitCallTool == InitStdio /\ InitLoop /\ InitHttp /\ InitFetch /\ InitFs /\ InitMgr /\ InitConn /\ InitSchema /\ InitToolInputs /\ InitSess /\ InitLoad /\ InitName /\ InitWire /\ InitIds

SpecTool == InitCallTool /\ [][NextTool]_vars

\* The loader applied to any path and file.
InitLoadConfig == InitStdio /\ InitLoop /\ InitHttp /\ InitFetch /\ InitFs /\ InitMgr /\ InitConn /\ InitSchema /\ InitTool /\ InitSess /\ InitLoadInputs /\ InitName /\ InitWire /\ InitIds

SpecLoad == InitLoadConfig /\ [][NextLoad]_vars

\* The names are sanitized for any server name and tool name.
InitSanitizeNames == InitStdio /\ InitLoop /\ InitHttp /\ InitFetch /\ InitFs /\ InitMgr /\ InitConn /\ InitSchema /\ InitTool /\ InitSess /\ InitLoad /\ InitNameInputs /\ InitWire /\ InitIds

SpecName == InitSanitizeNames /\ [][NextName]_vars

SpecWire == Init /\ [][NextWire]_vars

SpecIds == Init /\ [][NextIds]_vars
SpecClose == Init /\ [][NextClose]_vars
SpecEof == Init /\ [][NextEof]_vars /\ FairEof

\* Every attempt ends (the client has a timeout) and every sleep ends.
SpecHttpFair == SpecHttp /\ WF_vars(NextHttp)

=============================================================================
